---- MODULE Spec2Model ----
(***************************************************************************)
(* Fitness Fusion: the App component (view, workout and meal collections,  *)
(* profile), the Workout logging component, the Nutrition and Onboarding   *)
(* components and the generation-service wrappers of geminiService.ts.     *)
(*                                                                         *)
(* React state of a component lives as long as the component is mounted.   *)
(* App renders exactly one of Onboarding / Dashboard / Workout / Nutrition *)
(* / AICoach / Profile, so the state of a component that is not mounted is *)
(* represented by its useState initial values: that is what the next       *)
(* mount observes.  A promise still pending when its component unmounts    *)
(* calls setters of the dead instance, which has no effect on any state.   *)
(***************************************************************************)
EXTENDS Integers, Sequences, FiniteSets, TLC

(* ---------------------------------------------------------------------- *)
(* JavaScript values                                                      *)
(* ---------------------------------------------------------------------- *)

\* null for object-valued state (userProfile, analysisResult)
Null == <<>>
\* null / undefined for string-valued state
NullStr == "<null>"
Undefined == "<undefined>"
\* the JSON value null
JSNull == [jsnull |-> TRUE]
\* a number-valued form field: <<>> is undefined or NaN, <<n>> is the number n
NaN == <<>>

\* !s for a string-or-undefined value
Falsy(s) == s \in {"", Undefined, NullStr}

\* !n for a number-or-NaN value
FalsyNum(n) == n = NaN \/ n[1] = 0

Has(o, f) == o # JSNull /\ f \in DOMAIN o

\* o.f for an object o: undefined when the property is absent
Get(o, f) == IF Has(o, f) THEN o[f] ELSE Undefined

\* o.f for a number-valued property f: <<n>>, and <<>> (undefined) when the
\* property is absent
GetNum(o, f) == IF Has(o, f) THEN <<o[f]>> ELSE <<>>

Max(a, b) == IF a >= b THEN a ELSE b

Min(a, b) == IF a <= b THEN a ELSE b

\* Math.ceil(n / d) for n >= 0, d > 0
Ceil(n, d) == (n + d - 1) \div d

\* parseInt of the value of an <input type="number">: the strings the model types
ParseInt(s) ==
  CASE s = "3" -> <<3>>
    [] s = "10" -> <<10>>
    [] s = "50" -> <<50>>
    [] s = "30" -> <<30>>
    [] s = "70" -> <<70>>
    [] s = "175" -> <<175>>
    [] s = "0" -> <<0>>
    [] s = "5" -> <<5>>
    [] s = "200" -> <<200>>
    [] s = "74" -> <<74>>
    [] s = "100" -> <<100>>
    [] s = "120" -> <<120>>
    [] s = "-5" -> <<0 - 5>>
    [] OTHER -> NaN

(* ---------------------------------------------------------------------- *)
(* Bounds                                                                 *)
(* ---------------------------------------------------------------------- *)

\* sessions the workout collection holds in the application specification
MaxWorkouts == 1
\* sessions the workout collection holds in the store specification
MaxStore == 6
\* sessions the workout collection holds in the timer specification
MaxTimed == 1
\* exercises added by hand to one session in the timer specification
MaxTimedExercises == 2
\* meals the meal collection holds
MaxMeals == 2

\* stored sessions that carry a goal, in the long run
MaxGoals == 1
\* exercises added by hand to one session
MaxExercises == 1
\* meals the meal collection holds in the nutrition specification
MaxLogged == 2
\* timer ticks of one session in the application specification
MaxSeconds == 1
\* timer ticks of one session in the timer specification
MaxElapsed == 125
\* entries of a chat history handed to getFitnessCoaching
MaxHistory == 4
\* days the clock runs on while sessions are logged for the streak
MaxDays == 3
\* sessions in the store the streak is computed from
MaxStreak == 4
\* sessions in the store the 'Club 10' badge is computed from
MaxClub == 11
\* the last clock reading at which a chat message is sent
MaxSent == 3
\* sessions in the store the 'Heavy Lifter' badge is computed from
MaxVolume == 2
\* exercises of such a session
MaxLifts == 2

(* ---------------------------------------------------------------------- *)
(* The generation service and geminiService.ts                            *)
(* ---------------------------------------------------------------------- *)

Return(v) == [kind |-> "return", value |-> v]

Throw(e) == [kind |-> "throw", error |-> e]

TextValidPlan == "{plan}"
TextNoExercises == "{plan without exercises}"
TextEmptyObject == "{}"
TextNull == "null"
TextNotJSON == "Sorry, I cannot"
TextPlanNoWeight == "{plan whose exercise has no weightSuggestion}"
TextValidFood == "{food}"
TextFoodNoCalories == "{food without calories}"
TextOtherFood == "{another food}"

ValidFood ==
  [name |-> "Chicken Salad", calories |-> 420, protein |-> 35, carbs |-> 20, fat |-> 18,
   description |-> "Lean and balanced."]

ValidPlan ==
  [workoutName |-> "Full Body Foundation",
   strategy |-> "Build a base.",
   exercises |-> << [name |-> "Goblet Squat", sets |-> 3, reps |-> 10, weightSuggestion |-> 12] >>]

\* JSON.parse: the parsed value, or a SyntaxError
JSONParse(text) ==
  CASE text = TextValidPlan -> Return(ValidPlan)
    [] text = TextNoExercises ->
         Return([workoutName |-> "Full Body Foundation", strategy |-> "Build a base."])
    [] text = TextEmptyObject -> Return([f \in {} |-> Undefined])
    [] text = TextNull -> Return(JSNull)
    [] text = TextPlanNoWeight ->
         Return([workoutName |-> "Full Body Foundation",
                 strategy |-> "Build a base.",
                 exercises |-> << [name |-> "Goblet Squat", sets |-> 3, reps |-> 10] >>])
    [] text = TextValidFood -> Return(ValidFood)
    [] text = TextOtherFood ->
         Return([name |-> "Oatmeal", calories |-> 300, protein |-> 10, carbs |-> 54,
                 fat |-> 5, description |-> "Slow carbs."])
    [] text = TextFoodNoCalories ->
         Return([name |-> "Chicken Salad", protein |-> 35, carbs |-> 20, fat |-> 18,
                 description |-> "Lean and balanced."])
    [] OTHER -> Throw("SyntaxError")

\* outcomes of ai.models.generateContent / chat.sendMessage
Rejected == [kind |-> "rejected"]

Resolved(text) == [kind |-> "resolved", text |-> text]

PlanResponses ==
  {Rejected} \cup
  {Resolved(t) : t \in {Undefined, "", TextNotJSON, TextValidPlan,
                        TextNoExercises, TextEmptyObject, TextNull}}

\* a response whose plan lacks a field of an exercise; the workout view is not run
\* on it
UnvalidatedPlanResponses == {Resolved(TextPlanNoWeight)}

FallbackPlan ==
  [workoutName |-> "Quick HIIT Blast",
   strategy |-> "Fallback routine to keep you moving.",
   exercises |-> << [name |-> "Jumping Jacks", sets |-> 3, reps |-> 30, weightSuggestion |-> 0],
                    [name |-> "Pushups", sets |-> 3, reps |-> 10, weightSuggestion |-> 0],
                    [name |-> "Squats", sets |-> 3, reps |-> 15, weightSuggestion |-> 0] >>]

\* the try block of generateWorkoutPlan
PlanBody(resp) ==
  IF resp.kind = "rejected" THEN Throw("transport")
  ELSE IF Falsy(resp.text) THEN Throw("No plan generated")
  ELSE JSONParse(resp.text)

\* a catch block that gives up the exercises
PlanCatchEmpty(error) ==
  Return([workoutName |-> "Quick HIIT Blast",
          strategy |-> "Fallback routine to keep you moving.",
          exercises |-> <<>>])

\* the catch block of generateWorkoutPlan
PlanCatch(error) == Return(FallbackPlan)

generateWorkoutPlan(resp) ==
  LET r == PlanBody(resp) IN
  IF r.kind = "throw" THEN PlanCatch(r.error) ELSE r

FoodResponses ==
  {Rejected} \cup
  {Resolved(t) : t \in {Undefined, "", TextNotJSON, TextValidFood, TextFoodNoCalories, TextNull}}

\* the try block of analyzeFoodImage; data.name throws on null
FoodBody(resp) ==
  IF resp.kind = "rejected" THEN Throw("transport")
  ELSE IF Falsy(resp.text) THEN Throw("No response from AI")
  ELSE LET data == JSONParse(resp.text) IN
       IF data.kind = "throw" THEN data
       ELSE IF data.value = JSNull THEN Throw("TypeError")
       ELSE Return([name |-> Get(data.value, "name"),
                    macros |-> [calories |-> GetNum(data.value, "calories"),
                                protein |-> GetNum(data.value, "protein"),
                                carbs |-> GetNum(data.value, "carbs"),
                                fat |-> GetNum(data.value, "fat")],
                    description |-> Get(data.value, "description")])

\* a catch block that answers with an estimate of its own
FoodCatchDefault(error) ==
  Return([name |-> "Unknown",
          macros |-> [calories |-> <<0>>, protein |-> <<0>>, carbs |-> <<0>>, fat |-> <<0>>],
          description |-> ""])

\* the catch block of analyzeFoodImage: throw error
FoodCatch(error) == Throw(error)

analyzeFoodImage(resp) ==
  LET r == FoodBody(resp) IN
  IF r.kind = "throw" THEN FoodCatch(r.error) ELSE r

CoachingResponses ==
  {Rejected} \cup {Resolved(t) : t \in {Undefined, "", "Drive through your heels."}}

\* the try block of getFitnessCoaching: history[history.length - 1].role throws on
\* an empty history; result.text || "Keep pushing! ..."
CoachingBody(history, resp) ==
  IF Len(history) = 0 THEN Throw("TypeError")
  ELSE IF history[Len(history)].role # "user" THEN Return("")
  ELSE IF resp.kind = "rejected" THEN Throw("transport")
  ELSE Return(IF Falsy(resp.text) THEN "Keep pushing! I'm analyzing your request."
              ELSE resp.text)

\* the messages getFitnessCoaching hands to chat.sendMessage: the text of the last
\* history entry, once the read of its role has not thrown and the role is 'user'
CoachingSent(history) ==
  IF Len(history) = 0 THEN << >>
  ELSE IF history[Len(history)].role # "user" THEN << >>
  ELSE << history[Len(history)].text >>

\* a catch block that hands the error on
CoachingCatchRethrowing(error) == Throw(error)

\* the catch block of getFitnessCoaching
CoachingCatch(error) ==
  Return("I'm having trouble connecting to the fitness server. Let's focus on your breathing for a moment.")

getFitnessCoaching(history, resp) ==
  LET r == CoachingBody(history, resp) IN
  IF r.kind = "throw" THEN CoachingCatch(r.error) ELSE r

InsightResponses ==
  {Rejected} \cup {Resolved(t) : t \in {Undefined, "", "Add a protein snack."}}

\* the try block of generateDashboardInsight: response.text || "Stay consistent ..."
InsightBody(resp) ==
  IF resp.kind = "rejected" THEN Throw("transport")
  ELSE Return(IF Falsy(resp.text) THEN "Stay consistent to see results!" ELSE resp.text)

\* the catch block of generateDashboardInsight
InsightCatch(error) == Return("Great job logging in today. Let's crush some goals!")

generateDashboardInsight(resp) ==
  LET r == InsightBody(resp) IN
  IF r.kind = "throw" THEN InsightCatch(r.error) ELSE r

(* ---------------------------------------------------------------------- *)
(* State                                                                  *)
(* ---------------------------------------------------------------------- *)

VARIABLES
  \* App
  currentView, workouts, meals, userProfile,
  \* Date.now(): the reading the next handler gets
  now,
  \* Onboarding
  step, formData,
  \* Workout
  isLogging, currentSessionName, currentGoal, goalAchieved, currentExercises,
  isGenerating, aiStrategy, elapsedSeconds, isTimerRunning,
  \* Nutrition
  isAnalyzing, preview, analysisResult, reading, analyzing,
  \* the last call of a geminiService function: its arguments, the outcome of the
  \* external call and what the function handed back
  serviceCall,
  \* errors no handler caught (unhandled promise rejections)
  unhandled,
  \* AICoach; coaching holds the histories of the requests of the mounted
  \* component that have not resolved
  input, isLoading, messages, coaching,
  \* Dashboard; fetching tells that the fetchInsight of the mounted component has
  \* not resolved
  aiInsight, isAiLoading, fetching

appVars == <<currentView, workouts, meals, userProfile, now>>

onboardingVars == <<step, formData>>

workoutVars == <<isLogging, currentSessionName, currentGoal, goalAchieved, currentExercises,
                 isGenerating, aiStrategy, elapsedSeconds, isTimerRunning>>

nutritionVars == <<isAnalyzing, preview, analysisResult, reading, analyzing>>

serviceVars == <<serviceCall, unhandled>>

coachVars == <<input, isLoading, messages, coaching>>

dashboardVars == <<aiInsight, isAiLoading, fetching>>

vars == <<appVars, onboardingVars, workoutVars, nutritionVars, serviceVars, coachVars,
          dashboardVars>>

Views == {"dashboard", "workout", "nutrition", "coach", "profile"}

\* the component App renders
Mounted(view) == userProfile # Null /\ currentView = view

(* ---------------------------------------------------------------------- *)
(* Mounting and unmounting                                                *)
(* ---------------------------------------------------------------------- *)

\* an unmount that lets the request in flight report to the next Workout
WorkoutInitialKeepingRequest ==
  /\ isLogging' = FALSE
  /\ currentSessionName' = ""
  /\ currentGoal' = ""
  /\ goalAchieved' = FALSE
  /\ currentExercises' = <<>>
  /\ isGenerating' = isGenerating
  /\ aiStrategy' = NullStr
  /\ elapsedSeconds' = 0
  /\ isTimerRunning' = FALSE

\* the useState initial values of Workout
WorkoutInitial ==
  /\ isLogging' = FALSE
  /\ currentSessionName' = ""
  /\ currentGoal' = ""
  /\ goalAchieved' = FALSE
  /\ currentExercises' = <<>>
  /\ isGenerating' = FALSE
  /\ aiStrategy' = NullStr
  /\ elapsedSeconds' = 0
  /\ isTimerRunning' = FALSE

\* the useState initial values of Nutrition; a FileReader or an analysis of an
\* unmounted Nutrition reports to nobody
NutritionInitial ==
  /\ isAnalyzing' = FALSE
  /\ preview' = NullStr
  /\ analysisResult' = Null
  /\ reading' = {}
  /\ analyzing' = {}

InitialFormData ==
  [name |-> Undefined, gender |-> "Male", age |-> NaN, weight |-> NaN, height |-> NaN,
   goal |-> "Build Muscle", activityLevel |-> "Moderately Active"]

\* the useState initial values of Onboarding
OnboardingInitial ==
  /\ step' = 1
  /\ formData' = InitialFormData

\* the first message of AICoach; the names entered hold no blank, so that
\* name.split(' ')[0] is the name
Greeting(user) ==
  [id |-> "1", role |-> "model", text |-> "Hey " \o user.name \o "! I'm Fuse."]

\* AICoach off the screen: no chat, and its requests report to nobody
CoachInitial ==
  /\ input' = ""
  /\ isLoading' = FALSE
  /\ messages' = << >>
  /\ coaching' = {}

\* the useState initial values of AICoach
CoachMounted(user) ==
  /\ input' = ""
  /\ isLoading' = FALSE
  /\ messages' = << Greeting(user) >>
  /\ coaching' = {}

\* the useState initial values of Dashboard; off the screen no fetchInsight
\* reports to it
DashboardInitial ==
  /\ aiInsight' = "Analyzing your activity patterns..."
  /\ isAiLoading' = TRUE
  /\ fetching' = FALSE

\* Dashboard mounts: the effect starts fetchInsight
DashboardMounted ==
  /\ aiInsight' = "Analyzing your activity patterns..."
  /\ isAiLoading' = TRUE
  /\ fetching' = TRUE

\* setCurrentView(view): renderView unmounts the component of the old view and
\* mounts the one of the new view; the same view is no state change
setCurrentView(view) ==
  /\ currentView' = view
  /\ IF view = currentView
       THEN UNCHANGED <<workoutVars, nutritionVars, coachVars, dashboardVars>>
       ELSE /\ WorkoutInitial
            /\ NutritionInitial
            /\ IF view = "coach" THEN CoachMounted(userProfile) ELSE CoachInitial
            /\ IF view = "dashboard" THEN DashboardMounted ELSE DashboardInitial

(* ---------------------------------------------------------------------- *)
(* App: the session store                                                 *)
(* ---------------------------------------------------------------------- *)

\* an add that puts the new session last
handleAddWorkoutAppending(ws, workout) == ws \o <<workout>>

\* setWorkouts([workout, ...workouts])
handleAddWorkout(ws, workout) == <<workout>> \o ws

\* an update that ignores the id
handleUpdateWorkoutAll(ws, updatedWorkout) == [i \in 1..Len(ws) |-> updatedWorkout]

\* setWorkouts(workouts.map(w => w.id === updatedWorkout.id ? updatedWorkout : w))
handleUpdateWorkout(ws, updatedWorkout) ==
  [i \in 1..Len(ws) |-> IF ws[i].id = updatedWorkout.id THEN updatedWorkout ELSE ws[i]]

\* an add that keeps the new meal only
handleAddMealReplacing(ms, meal) == <<meal>>

\* setMeals([meal, ...meals])
handleAddMeal(ms, meal) == <<meal>> \o ms

\* recentWorkouts.slice(0, 3) of generateWorkoutPlan: the sessions its prompt summarises
historySummary(ws) == SubSeq(ws, 1, Min(3, Len(ws)))

\* workouts.slice(0, 5) of AICoach's userContext: the sessions the coaching context lists
recentWorkouts(ws) == SubSeq(ws, 1, Min(5, Len(ws)))

\* the bottom navigation bar: NavItem and the coach button
NavItem(view) ==
  /\ userProfile # Null
  /\ setCurrentView(view)
  /\ UNCHANGED <<workouts, meals, userProfile, now, onboardingVars, serviceVars>>

\* Profile's edit button: App renders Onboarding alone
handleEditProfile ==
  /\ Mounted("profile")
  /\ userProfile' = Null
  /\ UNCHANGED <<currentView, workouts, meals, now, onboardingVars, workoutVars, nutritionVars, serviceVars, coachVars, dashboardVars>>

(* ---------------------------------------------------------------------- *)
(* Workout: the logging flow                                              *)
(* ---------------------------------------------------------------------- *)

startLogging ==
  /\ isLogging' = TRUE
  /\ elapsedSeconds' = 0
  /\ isTimerRunning' = TRUE
  /\ currentSessionName' = ""
  /\ currentGoal' = ""
  /\ goalAchieved' = FALSE
  /\ currentExercises' = <<>>
  /\ aiStrategy' = NullStr

\* the + button of the idle view; no session is started once the collection
\* holds cap sessions
StartManual(cap) ==
  /\ Mounted("workout")
  /\ ~isLogging
  /\ Len(workouts) < cap
  /\ startLogging
  /\ UNCHANGED <<isGenerating, appVars, onboardingVars, nutritionVars, serviceVars, coachVars, dashboardVars>>

\* handleGenerateWorkout up to its await; the button is disabled while isGenerating
handleGenerateWorkout(cap) ==
  /\ Mounted("workout")
  /\ ~isLogging
  /\ ~isGenerating
  /\ Len(workouts) < cap
  /\ isGenerating' = TRUE
  /\ UNCHANGED <<isLogging, currentSessionName, currentGoal, goalAchieved, currentExercises,
                 aiStrategy, elapsedSeconds, isTimerRunning,
                 appVars, onboardingVars, nutritionVars, serviceVars, coachVars, dashboardVars>>

\* a mapping that drops the suggested weight
MappedExercisesUnweighted(exercises) ==
  [i \in 1..Len(exercises) |->
     [id |-> i,
      name |-> exercises[i].name,
      sets |-> exercises[i].sets,
      reps |-> exercises[i].reps,
      weight |-> 0,
      completed |-> FALSE]]

\* plan.exercises.map(...): ids are Date.now() + Math.random() strings, distinct
\* within the list; an id is represented by the rank of the exercise
MappedExercises(exercises) ==
  [i \in 1..Len(exercises) |->
     [id |-> i,
      name |-> exercises[i].name,
      sets |-> exercises[i].sets,
      reps |-> exercises[i].reps,
      weight |-> exercises[i].weightSuggestion,
      completed |-> FALSE]]

\* the statements of handleGenerateWorkout's try block after startLogging(), up to
\* the first that throws: plan.workoutName throws on null, plan.exercises.map on a
\* missing exercises property; the setters called before the throw take effect
PlanApplied(plan) ==
  IF plan = JSNull
    THEN [name |-> "", strategy |-> NullStr, exercises |-> <<>>]
  ELSE IF ~Has(plan, "exercises")
    THEN [name |-> Get(plan, "workoutName"), strategy |-> Get(plan, "strategy"),
          exercises |-> <<>>]
  ELSE [name |-> Get(plan, "workoutName"), strategy |-> Get(plan, "strategy"),
        exercises |-> MappedExercises(plan.exercises)]

\* handleGenerateWorkout from the resolution of its await to the end
PlanResolved(resp) ==
  /\ Mounted("workout")
  /\ isGenerating
  /\ LET r == generateWorkoutPlan(resp) IN
       IF r.kind = "throw"
         THEN UNCHANGED <<isLogging, currentSessionName, currentGoal, goalAchieved,
                          currentExercises, aiStrategy, elapsedSeconds, isTimerRunning>>
         ELSE LET a == PlanApplied(r.value) IN
              /\ isLogging' = TRUE
              /\ elapsedSeconds' = 0
              /\ isTimerRunning' = TRUE
              /\ currentGoal' = ""
              /\ goalAchieved' = FALSE
              /\ currentSessionName' = a.name
              /\ aiStrategy' = a.strategy
              /\ currentExercises' = a.exercises
  /\ isGenerating' = FALSE
  /\ UNCHANGED <<appVars, onboardingVars, nutritionVars, serviceVars, coachVars, dashboardVars>>

\* a cancel that keeps the partial session
cancelLoggingStoring ==
  /\ Mounted("workout")
  /\ isLogging
  /\ isLogging' = FALSE
  /\ isTimerRunning' = FALSE
  /\ workouts' = <<[id |-> ToString(now), date |-> now, name |-> currentSessionName,
                    exercises |-> currentExercises, durationMinutes |-> 1,
                    caloriesBurned |-> 0, goal |-> currentGoal,
                    goalAchieved |-> goalAchieved]>> \o workouts
  /\ now' = now + 1
  /\ UNCHANGED <<currentSessionName, currentGoal, goalAchieved, currentExercises,
                 isGenerating, aiStrategy, elapsedSeconds,
                 currentView, meals, userProfile, onboardingVars, nutritionVars, serviceVars, coachVars, dashboardVars>>

cancelLogging ==
  /\ Mounted("workout")
  /\ isLogging
  /\ isLogging' = FALSE
  /\ isTimerRunning' = FALSE
  /\ UNCHANGED <<currentSessionName, currentGoal, goalAchieved, currentExercises,
                 isGenerating, aiStrategy, elapsedSeconds,
                 appVars, onboardingVars, nutritionVars, serviceVars, coachVars, dashboardVars>>

\* the setInterval callback of the timer effect; the effect keeps the interval
\* only while the component is mounted with isTimerRunning && isLogging
Tick(cap) ==
  /\ Mounted("workout")
  /\ isTimerRunning /\ isLogging
  /\ elapsedSeconds < cap
  /\ elapsedSeconds' = elapsedSeconds + 1
  /\ UNCHANGED <<isLogging, currentSessionName, currentGoal, goalAchieved, currentExercises,
                 isGenerating, aiStrategy, isTimerRunning,
                 appVars, onboardingVars, nutritionVars, serviceVars, coachVars, dashboardVars>>

\* a pause button that also clears the counter
ToggleTimerResetting ==
  /\ Mounted("workout")
  /\ isLogging
  /\ isTimerRunning' = ~isTimerRunning
  /\ elapsedSeconds' = 0
  /\ UNCHANGED <<isLogging, currentSessionName, currentGoal, goalAchieved, currentExercises,
                 isGenerating, aiStrategy,
                 appVars, onboardingVars, nutritionVars, serviceVars, coachVars, dashboardVars>>

\* the pause / play button
ToggleTimer ==
  /\ Mounted("workout")
  /\ isLogging
  /\ isTimerRunning' = ~isTimerRunning
  /\ UNCHANGED <<isLogging, currentSessionName, currentGoal, goalAchieved, currentExercises,
                 isGenerating, aiStrategy, elapsedSeconds,
                 appVars, onboardingVars, nutritionVars, serviceVars, coachVars, dashboardVars>>

\* onChange of the workout name input
SetSessionName(text) ==
  /\ Mounted("workout")
  /\ isLogging
  /\ currentSessionName' = text
  /\ UNCHANGED <<isLogging, currentGoal, goalAchieved, currentExercises,
                 isGenerating, aiStrategy, elapsedSeconds, isTimerRunning,
                 appVars, onboardingVars, nutritionVars, serviceVars, coachVars, dashboardVars>>

\* onChange of the goal input
SetGoal(text) ==
  /\ Mounted("workout")
  /\ isLogging
  /\ currentGoal' = text
  /\ UNCHANGED <<isLogging, currentSessionName, goalAchieved, currentExercises,
                 isGenerating, aiStrategy, elapsedSeconds, isTimerRunning,
                 appVars, onboardingVars, nutritionVars, serviceVars, coachVars, dashboardVars>>

\* the "Achieved?" checkbox, rendered while currentGoal is non-empty
SetGoalAchieved ==
  /\ Mounted("workout")
  /\ isLogging
  /\ ~Falsy(currentGoal)
  /\ goalAchieved' = ~goalAchieved
  /\ UNCHANGED <<isLogging, currentSessionName, currentGoal, currentExercises,
                 isGenerating, aiStrategy, elapsedSeconds, isTimerRunning,
                 appVars, onboardingVars, nutritionVars, serviceVars, coachVars, dashboardVars>>

\* the exercise addExercise builds from the form fields
NewExercise(exercises, form) ==
  [id |-> Len(exercises) + 1,
   name |-> form.exName,
   sets |-> ParseInt(form.exSets)[1],
   reps |-> ParseInt(form.exReps)[1],
   weight |-> IF FalsyNum(ParseInt(form.exWeight)) THEN 0 ELSE ParseInt(form.exWeight)[1],
   completed |-> FALSE]

\* addExercise with the form fields as typed; the fields are cleared on success.
\* The id is Date.now().toString(); the readings of successive clicks differ, an
\* id is represented by the rank of the exercise in the list.
addExercise(form, cap) ==
  /\ Mounted("workout")
  /\ isLogging
  /\ IF form.exName = "" \/ form.exSets = "" \/ form.exReps = ""
       THEN UNCHANGED currentExercises
       ELSE /\ Len(currentExercises) < cap
            /\ currentExercises' = Append(currentExercises, NewExercise(currentExercises, form))
  /\ UNCHANGED <<isLogging, currentSessionName, currentGoal, goalAchieved,
                 isGenerating, aiStrategy, elapsedSeconds, isTimerRunning,
                 appVars, onboardingVars, nutritionVars, serviceVars, coachVars, dashboardVars>>

toggleExerciseComplete(id) ==
  /\ Mounted("workout")
  /\ isLogging
  /\ \E i \in 1..Len(currentExercises) : currentExercises[i].id = id
  /\ currentExercises' =
       [i \in 1..Len(currentExercises) |->
          IF currentExercises[i].id = id
            THEN [currentExercises[i] EXCEPT !.completed = ~currentExercises[i].completed]
            ELSE currentExercises[i]]
  /\ UNCHANGED <<isLogging, currentSessionName, currentGoal, goalAchieved,
                 isGenerating, aiStrategy, elapsedSeconds, isTimerRunning,
                 appVars, onboardingVars, nutritionVars, serviceVars, coachVars, dashboardVars>>

\* a guard that forgets the exercise list
CanFinishNameOnly(name, exercises) == ~Falsy(name)

\* the guard of finishSession, also the enabling condition of the Finish button
CanFinish(name, exercises) == ~(Falsy(name) \/ Len(exercises) = 0)

\* whole minutes only
DurationMinutesFloor(seconds) == Max(1, seconds \div 60)

\* Math.max(1, Math.ceil(elapsedSeconds / 60))
DurationMinutes(seconds) == Max(1, Ceil(seconds, 60))

\* Math.floor(durationMinutes * 5 + (currentExercises.length * 20))
CalculatedCalories(durationMinutes, exerciseCount) == durationMinutes * 5 + exerciseCount * 20

\* newSession of finishSession; id and date are renderings of the same clock reading
NewSession(clock, name, exercises, seconds, goal, achieved) ==
  [id |-> ToString(clock),
   date |-> clock,
   name |-> name,
   exercises |-> exercises,
   durationMinutes |-> DurationMinutes(seconds),
   caloriesBurned |-> CalculatedCalories(DurationMinutes(seconds), Len(exercises)),
   goal |-> goal,
   goalAchieved |-> achieved]

\* finishSession, with onAddWorkout = handleAddWorkout: the session is prepended and
\* the view switches to the dashboard, which unmounts Workout
finishSession ==
  /\ Mounted("workout")
  /\ isLogging
  /\ IF ~CanFinish(currentSessionName, currentExercises)
       THEN UNCHANGED vars
       ELSE /\ workouts' = handleAddWorkout(workouts,
                             NewSession(now, currentSessionName, currentExercises,
                                        elapsedSeconds, currentGoal, goalAchieved))
            /\ now' = now + 1
            /\ setCurrentView("dashboard")
            /\ UNCHANGED <<meals, userProfile, onboardingVars, serviceVars>>

\* a toggle that also clears the goal of the session
toggleGoalAchievedClearingGoal(i) ==
  /\ Mounted("workout")
  /\ ~isLogging
  /\ i \in 1..Len(workouts)
  /\ ~Falsy(workouts[i].goal)
  /\ workouts' = handleUpdateWorkout(workouts,
                   [workouts[i] EXCEPT !.goalAchieved = ~workouts[i].goalAchieved,
                                       !.goal = ""])
  /\ UNCHANGED <<currentView, meals, userProfile, now, onboardingVars, workoutVars, nutritionVars, serviceVars, coachVars, dashboardVars>>

\* the Done / Mark Done button of a stored session, rendered while w.goal is non-empty
toggleGoalAchieved(i) ==
  /\ Mounted("workout")
  /\ ~isLogging
  /\ i \in 1..Len(workouts)
  /\ ~Falsy(workouts[i].goal)
  /\ workouts' = handleUpdateWorkout(workouts,
                   [workouts[i] EXCEPT !.goalAchieved = ~workouts[i].goalAchieved])
  /\ UNCHANGED <<currentView, meals, userProfile, now, onboardingVars, workoutVars, nutritionVars, serviceVars, coachVars, dashboardVars>>

(* ---------------------------------------------------------------------- *)
(* Onboarding                                                             *)
(* ---------------------------------------------------------------------- *)

\* the fields the form shows at each step
StepFields(s) ==
  CASE s = 1 -> {"name", "gender", "age"}
    [] s = 2 -> {"height", "weight"}
    [] OTHER -> {"goal", "activityLevel"}

\* handleChange(field, value) from the onChange of the field's input: the number
\* inputs hand over parseInt(e.target.value)
handleChange(field, text) ==
  /\ userProfile = Null
  /\ field \in StepFields(step)
  /\ formData' = [formData EXCEPT ![field] =
                    IF field \in {"age", "height", "weight"} THEN ParseInt(text) ELSE text]
  /\ UNCHANGED <<step, appVars, workoutVars, nutritionVars, serviceVars, coachVars, dashboardVars>>

\* the disabled condition of the Next button
NextDisabled ==
  \/ step = 1 /\ (Falsy(formData.name) \/ FalsyNum(formData.age))
  \/ step = 2 /\ (FalsyNum(formData.height) \/ FalsyNum(formData.weight))

\* toISOString().split('T')[0]: the UTC day of a clock reading
MsPerDay == 86400000

DayOf(clock) == clock \div MsPerDay

\* the profile handleSubmit hands to onComplete
SubmittedProfile(data, clock) ==
  [name |-> data.name, gender |-> data.gender, age |-> data.age[1],
   weight |-> data.weight[1], height |-> data.height[1],
   goal |-> data.goal, activityLevel |-> data.activityLevel,
   weightHistory |-> << [date |-> DayOf(clock), weight |-> data.weight[1]] >>]

\* handleNext; at step 3 handleSubmit, with onComplete = handleProfileComplete:
\* the profile is set, the view is the dashboard, Onboarding unmounts and
\* Dashboard mounts
handleNext ==
  /\ userProfile = Null
  /\ ~NextDisabled
  /\ IF step < 3
       THEN /\ step' = step + 1
            /\ UNCHANGED <<formData, appVars, dashboardVars>>
       ELSE IF ~Falsy(formData.name) /\ ~FalsyNum(formData.age)
               /\ ~FalsyNum(formData.weight) /\ ~FalsyNum(formData.height)
         THEN /\ userProfile' = SubmittedProfile(formData, now)
              /\ currentView' = "dashboard"
              /\ OnboardingInitial
              /\ DashboardMounted
              /\ UNCHANGED <<workouts, meals, now>>
         ELSE UNCHANGED <<onboardingVars, appVars, dashboardVars>>
  /\ UNCHANGED <<workoutVars, nutritionVars, serviceVars, coachVars>>

(* ---------------------------------------------------------------------- *)
(* Nutrition                                                              *)
(* ---------------------------------------------------------------------- *)

\* the render of Nutrition: the file input and the upload button while there is
\* no preview
FileInputRendered == Falsy(preview)

\* the render of Nutrition: the result card with Retake and Log Meal, inside the
\* preview branch, while there is an analysis result
ResultRendered == ~Falsy(preview) /\ analysisResult # Null

\* handleFileSelect up to reader.readAsDataURL(file); the file input is rendered
\* while there is no preview
handleFileSelect(file) ==
  /\ Mounted("nutrition")
  /\ Falsy(preview)
  /\ reading' = reading \cup {file}
  /\ UNCHANGED <<isAnalyzing, preview, analysisResult, analyzing,
                 appVars, onboardingVars, workoutVars, serviceVars, coachVars, dashboardVars>>

\* reader.onloadend up to the await of analyzeFoodImage
ReaderLoadEnd(file) ==
  /\ Mounted("nutrition")
  /\ file \in reading
  /\ reading' = reading \ {file}
  /\ preview' = file
  /\ analysisResult' = Null
  /\ isAnalyzing' = TRUE
  /\ analyzing' = analyzing \cup {file}
  /\ UNCHANGED <<appVars, onboardingVars, workoutVars, serviceVars, coachVars, dashboardVars>>

\* a catch block that hands the error on
OnLoadEndCatchRethrowing(error) == Throw(error)

\* the catch block of reader.onloadend: alert(...), and the handler goes on
OnLoadEndCatch(error) == Return(Null)

\* the try / catch of reader.onloadend around its await: what the handler ends with
OnLoadEnd(resp) ==
  LET r == analyzeFoodImage(resp) IN
  IF r.kind = "throw" THEN OnLoadEndCatch(r.error) ELSE r

\* reader.onloadend from the resolution of analyzeFoodImage to the end: the result
\* is set on success only, the finally block clears isAnalyzing, and an error the
\* catch block hands on is caught by nobody
AnalysisResolved(file, resp) ==
  /\ Mounted("nutrition")
  /\ file \in analyzing
  /\ analyzing' = analyzing \ {file}
  /\ IF analyzeFoodImage(resp).kind = "throw"
       THEN UNCHANGED analysisResult
       ELSE analysisResult' = analyzeFoodImage(resp).value
  /\ isAnalyzing' = FALSE
  /\ unhandled' = IF OnLoadEnd(resp).kind = "throw"
                    THEN unhandled \cup {OnLoadEnd(resp).error}
                    ELSE unhandled
  /\ UNCHANGED <<preview, reading, appVars, onboardingVars, workoutVars, serviceCall,
                 coachVars, dashboardVars>>

\* the Retake button, rendered with an analysis result
Retake ==
  /\ Mounted("nutrition")
  /\ ~Falsy(preview)
  /\ analysisResult # Null
  /\ preview' = NullStr
  /\ UNCHANGED <<isAnalyzing, analysisResult, reading, analyzing,
                 appVars, onboardingVars, workoutVars, serviceVars, coachVars, dashboardVars>>

\* newMeal of handleSaveMeal
NewMeal(clock, result, image) ==
  [id |-> ToString(clock), name |-> result.name, timestamp |-> clock,
   macros |-> result.macros, imageUrl |-> image]

\* the save button, rendered with an analysis result; onAddMeal = handleAddMeal
handleSaveMeal(cap) ==
  /\ Mounted("nutrition")
  /\ ~Falsy(preview)
  /\ analysisResult # Null
  /\ Len(meals) < cap
  /\ meals' = handleAddMeal(meals, NewMeal(now, analysisResult, preview))
  /\ now' = now + 1
  /\ preview' = NullStr
  /\ analysisResult' = Null
  /\ UNCHANGED <<isAnalyzing, reading, analyzing,
                 currentView, workouts, userProfile, onboardingVars, workoutVars, serviceVars, coachVars, dashboardVars>>

(* ---------------------------------------------------------------------- *)
(* AICoach                                                                *)
(* ---------------------------------------------------------------------- *)

\* input.trim() of the texts typed
Trim(text) == IF text \in {"", " ", "  "} THEN "" ELSE text

\* onChange of the text input
setInput(text) ==
  /\ Mounted("coach")
  /\ input' = text
  /\ UNCHANGED <<isLoading, messages, coaching, appVars, onboardingVars, workoutVars,
                 nutritionVars, serviceVars, dashboardVars>>

\* userMsg of handleSend
UserMsg(clock, text) == [id |-> ToString(clock), role |-> "user", text |-> text]

\* botMsg of handleSend
BotMsg(clock, text) == [id |-> ToString(clock + 1), role |-> "model", text |-> text]

\* handleSend up to its await, from the Enter key, which no flag gates, or from
\* the Send button; nothing is sent once the clock has passed cap
handleSend(cap) ==
  /\ Mounted("coach")
  /\ IF Trim(input) = ""
       THEN UNCHANGED vars
       ELSE /\ now <= cap
            /\ messages' = Append(messages, UserMsg(now, input))
            /\ input' = ""
            /\ isLoading' = TRUE
            /\ coaching' = coaching \cup {Append(messages, UserMsg(now, input))}
            /\ now' = now + 1
            /\ UNCHANGED <<currentView, workouts, meals, userProfile, onboardingVars,
                           workoutVars, nutritionVars, serviceVars, dashboardVars>>

\* a finally block that leaves the flag to the last request in flight
CoachingFinallyLast(pending) == pending # {}

\* the finally block of handleSend: setIsLoading(false), whatever else is in flight
CoachingFinally(pending) == FALSE

\* handleSend from its await on, for the request that was given history: the
\* reply is appended, the catch block only logs, the flag is cleared
CoachingResolved(history, resp) ==
  /\ Mounted("coach")
  /\ history \in coaching
  /\ coaching' = coaching \ {history}
  /\ IF getFitnessCoaching(history, resp).kind = "throw"
       THEN UNCHANGED messages
       ELSE messages' = Append(messages, BotMsg(now, getFitnessCoaching(history, resp).value))
  /\ isLoading' = CoachingFinally(coaching \ {history})
  /\ now' = now + 2
  /\ UNCHANGED <<input, currentView, workouts, meals, userProfile, onboardingVars,
                 workoutVars, nutritionVars, serviceVars, dashboardVars>>

(* ---------------------------------------------------------------------- *)
(* Dashboard: the insight                                                 *)
(* ---------------------------------------------------------------------- *)

\* fetchInsight from its await on: the insight is shown, or the text of the catch
\* block, and the flag is cleared
\* a fetch whose failure path ends without the finally block
InsightResolvedWithoutFinally(resp) ==
  /\ Mounted("dashboard")
  /\ fetching
  /\ fetching' = FALSE
  /\ aiInsight' = IF resp.kind = "rejected"
                    THEN "Focus on hitting your protein goals today!"
                    ELSE generateDashboardInsight(resp).value
  /\ isAiLoading' = (resp.kind = "rejected")
  /\ UNCHANGED <<appVars, onboardingVars, workoutVars, nutritionVars, serviceVars, coachVars>>

InsightResolved(resp) ==
  /\ Mounted("dashboard")
  /\ fetching
  /\ fetching' = FALSE
  /\ aiInsight' = IF generateDashboardInsight(resp).kind = "throw"
                    THEN "Focus on hitting your protein goals today!"
                    ELSE generateDashboardInsight(resp).value
  /\ isAiLoading' = FALSE
  /\ UNCHANGED <<appVars, onboardingVars, workoutVars, nutritionVars, serviceVars, coachVars>>

(* ---------------------------------------------------------------------- *)
(* Calls of the geminiService functions                                   *)
(* ---------------------------------------------------------------------- *)

CallGetFitnessCoaching(history, resp) ==
  /\ serviceCall' = [op |-> "getFitnessCoaching", history |-> history, response |-> resp,
                     sent |-> CoachingSent(history),
                     result |-> getFitnessCoaching(history, resp)]
  /\ UNCHANGED <<appVars, onboardingVars, workoutVars, nutritionVars, unhandled,
                 coachVars, dashboardVars>>

CallGenerateDashboardInsight(resp) ==
  /\ serviceCall' = [op |-> "generateDashboardInsight", response |-> resp,
                     result |-> generateDashboardInsight(resp)]
  /\ UNCHANGED <<appVars, onboardingVars, workoutVars, nutritionVars, unhandled,
                 coachVars, dashboardVars>>

CallGenerateWorkoutPlan(resp) ==
  /\ serviceCall' = [op |-> "generateWorkoutPlan", response |-> resp,
                     result |-> generateWorkoutPlan(resp)]
  /\ UNCHANGED <<appVars, onboardingVars, workoutVars, nutritionVars, unhandled,
                 coachVars, dashboardVars>>

CallAnalyzeFoodImage(resp) ==
  /\ serviceCall' = [op |-> "analyzeFoodImage", response |-> resp,
                     result |-> analyzeFoodImage(resp)]
  /\ UNCHANGED <<appVars, onboardingVars, workoutVars, nutritionVars, unhandled,
                 coachVars, dashboardVars>>

(* ---------------------------------------------------------------------- *)
(* Profile                                                                *)
(* ---------------------------------------------------------------------- *)

\* one hour of the clock
HourMs == MsPerDay \div 24

\* the time zone of the host: the offset of local time from UTC is `before` up to
\* the instant changeAt and `after` from then on
FixedZone(offset) == [before |-> offset, after |-> offset, changeAt |-> 0]

\* LocalTime(t) of a Date: the local reading of the UTC instant t
LocalTime(zone, t) == t + (IF t < zone.changeAt THEN zone.before ELSE zone.after)

\* UTC(t) of a Date: the instant of a local reading
UTCTime(zone, local) ==
  IF local - zone.before < zone.changeAt THEN local - zone.before ELSE local - zone.after

\* new Date('YYYY-MM-DD'): a date-only string is midnight UTC of that day
DateOfDay(day) == day * MsPerDay

\* expected.setDate(expected.getDate() - i): the day of the month is read and set
\* in local time, the time within the local day is kept
SetDateBack(zone, t, i) ==
  LET local == LocalTime(zone, t) IN
  UTCTime(zone, ((local \div MsPerDay) - i) * MsPerDay + (local % MsPerDay))

\* [...set].sort((a, b) => new Date(b).getTime() - new Date(a).getTime())
RECURSIVE SortedDescending(_)
SortedDescending(days) ==
  IF days = {} THEN << >>
  ELSE LET latest == CHOOSE d \in days : \A e \in days : e <= d IN
       << latest >> \o SortedDescending(days \ {latest})

\* the for loop of calculateStreak from index i on
RECURSIVE CountConsecutive(_, _, _)
CountConsecutive(zone, dates, i) ==
  IF i >= Len(dates) THEN 0
  ELSE IF DayOf(DateOfDay(dates[i + 1])) = DayOf(SetDateBack(zone, DateOfDay(dates[1]), i))
         THEN 1 + CountConsecutive(zone, dates, i + 1)
         ELSE 0

\* calculateStreak, evaluated at the clock reading `clock` on a host in `zone`
calculateStreak(ws, clock, zone) ==
  IF Len(ws) = 0 THEN 0
  ELSE LET dates == SortedDescending({DayOf(ws[i].date) : i \in 1..Len(ws)})
           today == DayOf(clock)
           yesterday == DayOf(clock - MsPerDay)
       IN IF Len(dates) = 0 THEN 0
          ELSE IF dates[1] # today /\ dates[1] # yesterday THEN 0
          ELSE CountConsecutive(zone, dates, 0)

\* a day goes by with the application open
DayPasses(cap) ==
  /\ DayOf(now) < cap
  /\ now' = now + MsPerDay
  /\ UNCHANGED <<currentView, workouts, meals, userProfile,
                 onboardingVars, workoutVars, nutritionVars, serviceVars, coachVars, dashboardVars>>

\* session.exercises.reduce((acc, ex) => acc + (ex.weight * ex.reps * ex.sets), 0)
RECURSIVE totalVolumeFrom(_, _)
totalVolumeFrom(exercises, i) ==
  IF i > Len(exercises) THEN 0
  ELSE exercises[i].weight * exercises[i].reps * exercises[i].sets
         + totalVolumeFrom(exercises, i + 1)

totalVolume(session) == totalVolumeFrom(session.exercises, 1)

\* a badge that compares with the weight entered first, which a lighter weight
\* entered later leaves in place
transformation_10_kept(u, w) ==
  IF Len(u.weightHistory) = 0 THEN FALSE
  ELSE 120 - u.weight >= 10

\* condition of the badge 'New You'
transformation_10(u, w) ==
  IF Len(u.weightHistory) = 0 THEN FALSE
  ELSE u.weightHistory[1].weight - u.weight >= 10

\* a badge that unlocks one session early
club_10_early(u, w) == Len(w) >= 9

\* condition of the badge 'Club 10'
club_10(u, w) == Len(w) >= 10

\* a badge that adds up the sessions
volume_master_summed(u, w) ==
  totalVolumeFrom([i \in 1..Len(w) |-> [weight |-> totalVolume(w[i]), reps |-> 1, sets |-> 1]], 1)
    >= 5000

\* condition of the badge 'Heavy Lifter'
volume_master(u, w) == \E i \in 1..Len(w) : totalVolume(w[i]) >= 5000

\* isUnlocked of a badge as Profile renders it
isUnlocked(id) ==
  /\ Mounted("profile")
  /\ CASE id = "club_10" -> club_10(userProfile, workouts)
       [] id = "volume_master" -> volume_master(userProfile, workouts)

\* bmi of Profile in tenths: (user.weight / (heightInMeters * heightInMeters)).toFixed(1)
\* read back by parseFloat; toFixed takes the nearest tenth, the larger one of two
bmiValue(user) ==
  (2 * user.weight * 100000 + user.height * user.height)
    \div (2 * user.height * user.height)

\* categories that take the boundary values into the lower category
bmiCategoryClosedAbove(user) ==
  IF bmiValue(user) <= 185 THEN "Underweight"
  ELSE IF bmiValue(user) <= 250 THEN "Healthy"
  ELSE IF bmiValue(user) <= 300 THEN "Overweight"
  ELSE "Obese"

\* bmiCategory of Profile
bmiCategory(user) ==
  IF bmiValue(user) < 185 THEN "Underweight"
  ELSE IF bmiValue(user) >= 185 /\ bmiValue(user) < 250 THEN "Healthy"
  ELSE IF bmiValue(user) >= 250 /\ bmiValue(user) < 300 THEN "Overweight"
  ELSE "Obese"

(* ---------------------------------------------------------------------- *)
(* Dashboard                                                              *)
(* ---------------------------------------------------------------------- *)

\* The calorie arithmetic is carried out exactly: bmr in quarters (6.25 * height),
\* the multipliers in thousandths, tdee and dailyCalorieGoal in units of 1/4000.

\* a basal rate that takes every gender but 'Female' as 'Male'
bmrFemaleOnly(u) ==
  4 * (10 * u.weight) + 25 * u.height - 4 * (5 * u.age)
    + 4 * (IF u.gender = "Female" THEN 0 - 161 ELSE 5)

\* bmr of calculateTargets, in quarters
bmr(u) ==
  4 * (10 * u.weight) + 25 * u.height - 4 * (5 * u.age)
    + 4 * (IF u.gender = "Male" THEN 5 ELSE 0 - 161)

\* multipliers of calculateTargets, in thousandths
multipliers ==
  [level \in {"Sedentary", "Lightly Active", "Moderately Active", "Very Active"} |->
     CASE level = "Sedentary" -> 1200
       [] level = "Lightly Active" -> 1375
       [] level = "Moderately Active" -> 1550
       [] level = "Very Active" -> 1725]

\* Math.round(x) for x = n / 4000: the integer floor(x + 0.5)
MathRound(n) == (n + 2000) \div 4000

\* dailyCalorieGoal of calculateTargets, in units of 1/4000
dailyCalorieGoal(u) ==
  LET tdee == bmr(u) * multipliers[u.activityLevel]
      lose == IF u.goal = "Lose Weight" THEN tdee - 500 * 4000 ELSE tdee
  IN IF u.goal = "Build Muscle" THEN lose + 300 * 4000 ELSE lose

\* calculateTargets of the Dashboard over userProfile u
calculateTargets(u) ==
  [calorieGoal |-> MathRound(dailyCalorieGoal(u)), stepGoal |-> 10000]

(* ---------------------------------------------------------------------- *)
(* Specifications                                                         *)
(* ---------------------------------------------------------------------- *)

\* what the user types and selects
SessionNames == {"", "Leg Day"}

Goals == {"Squat 100kg"}

ValidForm == [exName |-> "Squat", exSets |-> "3", exReps |-> "10", exWeight |-> ""]

ExerciseForms ==
  {ValidForm,
   [exName |-> "Squat", exSets |-> "3", exReps |-> "", exWeight |-> "50"]}

ValidInputs == {<<"name", "Sam">>, <<"age", "30">>, <<"height", "175">>, <<"weight", "70">>}

FormInputs == ValidInputs \cup {<<"name", "">>, <<"age", "">>, <<"weight", "0">>}

\* what the user enters in the three steps of Onboarding
ProfileInputs ==
  {<<"name", "Sam">>, <<"age", "30">>, <<"age", "50">>, <<"height", "175">>,
   <<"weight", "70">>, <<"weight", "50">>}
    \cup {<<"gender", g>> : g \in {"Male", "Female", "Other"}}
    \cup {<<"goal", g>> : g \in {"Lose Weight", "Build Muscle", "Improve Stamina", "Keep Fit"}}
    \cup {<<"activityLevel", l>> : l \in DOMAIN multipliers}

\* heights and weights on and between the category boundaries: at 200 cm a
\* weight of 74, 100, 120 kg is a BMI of 18.5, 25.0, 30.0
BMIInputs ==
  {<<"name", "Sam">>, <<"age", "30">>, <<"age", "50">>, <<"gender", "Female">>,
   <<"height", "200">>, <<"height", "175">>}
    \cup {<<"weight", w>> : w \in {"50", "70", "74", "100", "120"}}

\* what can be typed into the name field and the three number fields of
\* Onboarding, which set no minimum: nothing, zero, a negative and a positive number
OnboardingInputs ==
  {<<"name", "Sam">>, <<"name", "">>}
    \cup {<<f, t>> : f \in {"age", "height", "weight"}, t \in {"", "0", "-5", "70"}}

\* two photographs, and what the generation service answers to each of them
MealImages == {"data:image/jpeg;base64,AAAA", "data:image/png;base64,BBBB"}

ResponseFor(file) ==
  IF file = "data:image/jpeg;base64,AAAA" THEN Resolved(TextValidFood)
  ELSE Resolved(TextOtherFood)

\* what the user types into the chat
ChatInputs == {" ", "How deep should I squat?"}

\* exercises of volume 5000 and 2500
VolumeForms ==
  {[exName |-> "Squat", exSets |-> "10", exReps |-> "10", exWeight |-> "50"],
   [exName |-> "Squat", exSets |-> "5", exReps |-> "10", exWeight |-> "50"]}

Images == {"data:image/jpeg;base64,AAAA"}

ChatMessages ==
  {[role |-> "user", text |-> "How deep should I squat?"],
   [role |-> "model", text |-> "Hey Sam! I'm Fuse."]}

Histories == UNION {[1..n -> ChatMessages] : n \in 0..MaxHistory}

\* hosts: UTC, a fixed offset ahead of UTC, and zones whose daylight saving time
\* ends (the offset drops by an hour) or begins at 01:00 UTC resp. 06:00 UTC of
\* one of the days
Zones ==
  {FixedZone(0), FixedZone(9 * HourMs)}
    \cup {[before |-> 2 * HourMs, after |-> HourMs, changeAt |-> DateOfDay(d) + HourMs] :
             d \in 0..MaxDays}
    \cup {[before |-> HourMs, after |-> 2 * HourMs, changeAt |-> DateOfDay(d) + HourMs] :
             d \in 0..MaxDays}
    \cup {[before |-> 0 - 4 * HourMs, after |-> 0 - 5 * HourMs,
           changeAt |-> DateOfDay(d) + 6 * HourMs] : d \in 0..MaxDays}

\* App starts without a profile, on the dashboard, with empty collections
Init ==
  /\ currentView = "dashboard"
  /\ workouts = <<>>
  /\ meals = <<>>
  /\ userProfile = Null
  /\ now = 1
  /\ step = 1
  /\ formData = InitialFormData
  /\ isLogging = FALSE
  /\ currentSessionName = ""
  /\ currentGoal = ""
  /\ goalAchieved = FALSE
  /\ currentExercises = <<>>
  /\ isGenerating = FALSE
  /\ aiStrategy = NullStr
  /\ elapsedSeconds = 0
  /\ isTimerRunning = FALSE
  /\ isAnalyzing = FALSE
  /\ preview = NullStr
  /\ analysisResult = Null
  /\ reading = {}
  /\ analyzing = {}
  /\ serviceCall = [op |-> "none"]
  /\ unhandled = {}
  /\ input = ""
  /\ isLoading = FALSE
  /\ messages = << >>
  /\ coaching = {}
  /\ aiInsight = "Analyzing your activity patterns..."
  /\ isAiLoading = TRUE
  /\ fetching = FALSE

\* Onboarding, navigation and the workout view, with every outcome of plan generation
Next ==
  \/ \E view \in Views : NavItem(view)
  \/ handleEditProfile
  \/ \E typed \in FormInputs : handleChange(typed[1], typed[2])
  \/ handleNext
  \/ StartManual(MaxWorkouts)
  \/ handleGenerateWorkout(MaxWorkouts)
  \/ \E resp \in PlanResponses : PlanResolved(resp)
  \/ cancelLogging
  \/ Tick(MaxSeconds)
  \/ ToggleTimer
  \/ \E text \in SessionNames : SetSessionName(text)
  \/ \E text \in Goals : SetGoal(text)
  \/ SetGoalAchieved
  \/ \E form \in ExerciseForms : addExercise(form, MaxExercises)
  \/ \E id \in 1..MaxExercises : toggleExerciseComplete(id)
  \/ finishSession
  \/ \E i \in 1..MaxWorkouts : toggleGoalAchieved(i)

Spec == Init /\ [][Next]_vars

\* the number of stored sessions that carry a goal
GoalCount(ws) == Cardinality({i \in 1..Len(ws) : ~Falsy(ws[i].goal)})

\* The whole application over a long run of sessions and meals: every session is
\* the plan generated for it, every meal the one analysed image
NextStore ==
  \/ \E view \in Views : NavItem(view)
  \/ handleEditProfile
  \/ \E typed \in ValidInputs : handleChange(typed[1], typed[2])
  \/ handleNext
  \/ StartManual(MaxStore)
  \/ handleGenerateWorkout(MaxStore)
  \/ PlanResolved(Rejected)
  \/ cancelLogging
  \/ \E text \in Goals : GoalCount(workouts) < MaxGoals /\ SetGoal(text)
  \/ finishSession
  \/ \E i \in 1..MaxStore : toggleGoalAchieved(i)
  \/ \E file \in Images : handleFileSelect(file)
  \/ \E file \in Images : ReaderLoadEnd(file)
  \/ \E file \in Images, resp \in {Rejected, Resolved(TextValidFood)} :
        AnalysisResolved(file, resp)
  \/ Retake
  \/ handleSaveMeal(MaxMeals)

SpecStore == Init /\ [][NextStore]_vars

\* The timer of the workout view over sessions of some minutes
NextTimer ==
  \/ \E view \in {"workout", "dashboard"} : NavItem(view)
  \/ \E typed \in ValidInputs : handleChange(typed[1], typed[2])
  \/ handleNext
  \/ StartManual(MaxTimed)
  \/ handleGenerateWorkout(MaxTimed)
  \/ PlanResolved(Rejected)
  \/ cancelLogging
  \/ Tick(MaxElapsed)
  \/ ToggleTimer
  \/ SetSessionName("Leg Day")
  \/ addExercise(ValidForm, MaxTimedExercises)
  \/ finishSession

SpecTimer == Init /\ [][NextTimer]_vars

\* The geminiService functions under every outcome of the external call
NextService ==
  \/ \E history \in Histories, resp \in CoachingResponses :
        CallGetFitnessCoaching(history, resp)
  \/ \E resp \in InsightResponses : CallGenerateDashboardInsight(resp)
  \/ \E resp \in PlanResponses \cup UnvalidatedPlanResponses : CallGenerateWorkoutPlan(resp)
  \/ \E resp \in FoodResponses : CallAnalyzeFoodImage(resp)

SpecService == Init /\ [][NextService]_vars

\* The nutrition view under every outcome of the analysis, next to calls of the
\* two functions that parse a structured response
NextNutrition ==
  \/ \E view \in {"nutrition", "dashboard"} : NavItem(view)
  \/ \E typed \in ValidInputs : handleChange(typed[1], typed[2])
  \/ handleNext
  \/ \E file \in Images : handleFileSelect(file)
  \/ \E file \in Images : ReaderLoadEnd(file)
  \/ \E file \in Images, resp \in FoodResponses : AnalysisResolved(file, resp)
  \/ Retake
  \/ handleSaveMeal(MaxLogged)
  \/ \E resp \in FoodResponses : CallAnalyzeFoodImage(resp)
  \/ \E resp \in PlanResponses \cup UnvalidatedPlanResponses : CallGenerateWorkoutPlan(resp)

SpecNutrition == Init /\ [][NextNutrition]_vars

\* sessions logged over several days, seen in the profile view
NextStreak ==
  \/ \E view \in {"workout", "profile"} : NavItem(view)
  \/ \E typed \in ValidInputs : handleChange(typed[1], typed[2])
  \/ handleNext
  \/ StartManual(MaxStreak)
  \/ SetSessionName("Leg Day")
  \/ addExercise(ValidForm, MaxExercises)
  \/ finishSession
  \/ DayPasses(MaxDays)

SpecStreak == Init /\ [][NextStreak]_vars

\* sessions logged one after the other, seen in the profile view
NextClub ==
  \/ \E view \in {"workout", "profile"} : NavItem(view)
  \/ handleEditProfile
  \/ \E typed \in ValidInputs : handleChange(typed[1], typed[2])
  \/ handleNext
  \/ StartManual(MaxClub)
  \/ SetSessionName("Leg Day")
  \/ addExercise(ValidForm, MaxExercises)
  \/ finishSession

SpecClub == Init /\ [][NextClub]_vars

\* weighted sessions, seen in the profile view
NextVolume ==
  \/ \E view \in {"workout", "profile"} : NavItem(view)
  \/ \E typed \in ValidInputs : handleChange(typed[1], typed[2])
  \/ handleNext
  \/ StartManual(MaxVolume)
  \/ SetSessionName("Leg Day")
  \/ \E form \in VolumeForms : addExercise(form, MaxLifts)
  \/ finishSession

SpecVolume == Init /\ [][NextVolume]_vars

\* profiles entered and edited, seen in the dashboard
NextTargets ==
  \/ \E view \in {"dashboard", "profile"} : NavItem(view)
  \/ handleEditProfile
  \/ \E typed \in ProfileInputs : handleChange(typed[1], typed[2])
  \/ handleNext

SpecTargets == Init /\ [][NextTargets]_vars

\* profiles of several builds, seen in the profile view
NextBMI ==
  \/ \E view \in {"dashboard", "profile"} : NavItem(view)
  \/ handleEditProfile
  \/ \E typed \in BMIInputs : handleChange(typed[1], typed[2])
  \/ handleNext

SpecBMI == Init /\ [][NextBMI]_vars

\* the onboarding form filled with any of the inputs, the first time and after
\* 'edit profile'
NextOnboarding ==
  \/ \E view \in {"dashboard", "profile"} : NavItem(view)
  \/ handleEditProfile
  \/ \E typed \in OnboardingInputs : handleChange(typed[1], typed[2])
  \/ handleNext

SpecOnboarding == Init /\ [][NextOnboarding]_vars

\* the chat with the coach, left and entered again
NextCoach ==
  \/ \E view \in {"coach", "dashboard"} : NavItem(view)
  \/ \E typed \in ValidInputs : handleChange(typed[1], typed[2])
  \/ handleNext
  \/ \E text \in ChatInputs : setInput(text)
  \/ handleSend(MaxSent)
  \/ \E history \in coaching, resp \in CoachingResponses : CoachingResolved(history, resp)

SpecCoach == Init /\ [][NextCoach]_vars

\* photographs selected, read and analysed in any interleaving
NextMeals ==
  \/ \E view \in {"nutrition", "dashboard"} : NavItem(view)
  \/ \E typed \in ValidInputs : handleChange(typed[1], typed[2])
  \/ handleNext
  \/ \E file \in MealImages : handleFileSelect(file)
  \/ \E file \in MealImages : ReaderLoadEnd(file)
  \/ \E file \in MealImages : \E resp \in {Rejected, ResponseFor(file)} :
        AnalysisResolved(file, resp)
  \/ Retake
  \/ handleSaveMeal(MaxLogged)

SpecMeals == Init /\ [][NextMeals]_vars

(* ---------------------------------------------------------------------- *)
(* The four generation calls under the assumption that each one settles   *)
(* ---------------------------------------------------------------------- *)

\* the awaited call of each flow settles, resolved or rejected
AnalysisSettles ==
  \E file \in MealImages : \E resp \in {Rejected, ResponseFor(file)} :
     AnalysisResolved(file, resp)

PlanSettles == \E resp \in PlanResponses : PlanResolved(resp)

CoachingSettles ==
  \E history \in coaching : \E resp \in CoachingResponses : CoachingResolved(history, resp)

InsightSettles == \E resp \in InsightResponses : InsightResolved(resp)

NextLive ==
  \/ \E view \in Views : NavItem(view)
  \/ \E typed \in ValidInputs : handleChange(typed[1], typed[2])
  \/ handleNext
  \/ \E file \in MealImages : handleFileSelect(file)
  \/ \E file \in MealImages : ReaderLoadEnd(file)
  \/ AnalysisSettles
  \/ Retake
  \/ StartManual(MaxWorkouts)
  \/ cancelLogging
  \/ handleGenerateWorkout(MaxWorkouts)
  \/ PlanSettles
  \/ \E text \in ChatInputs : setInput(text)
  \/ handleSend(MaxSent)
  \/ CoachingSettles
  \/ InsightSettles

\* a pending call of the mounted component is not pending for ever
Settling ==
  /\ WF_vars(AnalysisSettles)
  /\ WF_vars(PlanSettles)
  /\ WF_vars(CoachingSettles)
  /\ WF_vars(InsightSettles)

SpecLive == Init /\ [][NextLive]_vars /\ Settling

(* ---------------------------------------------------------------------- *)
(* Properties                                                             *)
(* ---------------------------------------------------------------------- *)

\* a session with a name and at least one exercise
Storable(name, exercises) == name \notin {"", Undefined, NullStr} /\ Len(exercises) >= 1

C1_Stored ==
  \A i \in 1..Len(workouts) : Storable(workouts[i].name, workouts[i].exercises)

\* a step stores a session only from Logging with a name and an exercise, and it
\* stores that name and those exercises
C1_Append ==
  workouts' # workouts /\ Len(workouts') > Len(workouts) =>
    /\ isLogging
    /\ Storable(currentSessionName, currentExercises)
    /\ workouts'[1].name = currentSessionName
    /\ workouts'[1].exercises = currentExercises

\* C1: finishSession appends a session to the workout store only when the session
\* name is non-empty and the exercise list has at least one exercise, otherwise it
\* changes nothing; so every stored session has a non-empty name and at least one
\* exercise.
C1_FinishGuarded == []C1_Stored /\ [][C1_Append]_vars

\* a session was finished and stored
C1_Witness == Len(workouts) >= 1 /\ ~isLogging /\ currentView = "dashboard"

\* a step of the timer's interval: one second more, from Logging with a running timer
TickStep ==
  /\ isLogging /\ isTimerRunning
  /\ elapsedSeconds' = elapsedSeconds + 1

\* a step that starts logging: the counter is 0 and the timer runs
StartStep ==
  /\ isLogging' /\ isTimerRunning'
  /\ elapsedSeconds' = 0

\* a step that takes the workout view off the screen: its state, the counter
\* included, is discarded with it
UnmountStep ==
  /\ currentView = "workout" /\ currentView' # "workout"
  /\ ~isLogging' /\ ~isTimerRunning'
  /\ elapsedSeconds' = 0

\* a step within the workout view that pauses or resumes the timer or leaves Logging
PauseOrCancelStep ==
  /\ currentView' = currentView
  /\ isLogging
  /\ isTimerRunning' # isTimerRunning \/ ~isLogging'
  /\ ~StartStep

\* C2 as stated: the only transitions that change elapsedSeconds are a timer tick,
\* which adds exactly 1 from a state with isLogging and isTimerRunning, and a
\* start of logging, which resets it to 0.
C2_OnlyTickAndStart == [][elapsedSeconds' # elapsedSeconds => TickStep \/ StartStep]_vars

\* C2: elapsedSeconds changes only by a timer tick (exactly +1, from a state with
\* isLogging and isTimerRunning), by a start of logging (reset to 0), or because the
\* workout view leaves the screen (a view switch, the one of a successful finish
\* included), which discards the counter with the session.  Hence a step that
\* pauses, resumes or cancels leaves the counter as it is, and the counter does
\* not advance while the flow is not in Logging or the timer is paused.
C2_TimerSteps ==
  [][/\ elapsedSeconds' # elapsedSeconds => TickStep \/ StartStep \/ UnmountStep
     /\ elapsedSeconds' > elapsedSeconds => isLogging /\ isTimerRunning
     /\ PauseOrCancelStep => elapsedSeconds' = elapsedSeconds]_vars

\* a session that ran for some seconds and is paused
C2_Witness == isLogging /\ ~isTimerRunning /\ elapsedSeconds >= 2

\* the plan handleGenerateWorkout receives for a response of the generation service
PlanOf(resp) == generateWorkoutPlan(resp).value

\* a step within the workout view that takes the flow from Logging to Idle
CancelStep ==
  /\ isLogging /\ ~isLogging'
  /\ currentView = "workout" /\ currentView' = "workout"

\* a step from Idle into Logging
EntryStep == ~isLogging /\ isLogging'

\* the name and every exercise after the step are the empty ones of a manual start
\* or come from a plan received with the step
NothingCarriedOver ==
  /\ currentGoal' = ""
  /\ goalAchieved' = FALSE
  /\ \/ currentSessionName' = "" /\ currentExercises' = <<>>
     \/ \E resp \in PlanResponses :
          /\ PlanOf(resp) # JSNull
          /\ currentSessionName' = Get(PlanOf(resp), "workoutName")
          /\ Has(PlanOf(resp), "exercises")
          /\ Len(currentExercises') = Len(PlanOf(resp).exercises)
          /\ \A i \in 1..Len(currentExercises') :
               currentExercises'[i].name = PlanOf(resp).exercises[i].name

ManualStartStep == ~isLogging /\ isLogging' /\ isGenerating' = isGenerating

\* a step that completes a plan generation with the flow in Logging
AIStartStep == isGenerating /\ ~isGenerating' /\ isLogging'

\* the state after the step is the empty session of startLogging
StartsEmpty ==
  /\ currentSessionName' = ""
  /\ currentGoal' = ""
  /\ goalAchieved' = FALSE
  /\ currentExercises' = <<>>
  /\ aiStrategy' = NullStr
  /\ elapsedSeconds' = 0
  /\ isTimerRunning'

\* the state after the step holds the plan: its name, its strategy and one
\* exercise per plan exercise, in plan order
StartsFromPlan(plan) ==
  /\ currentSessionName' = Get(plan, "workoutName")
  /\ aiStrategy' = Get(plan, "strategy")
  /\ Len(currentExercises') = IF Has(plan, "exercises") THEN Len(plan.exercises) ELSE 0
  /\ \A i \in 1..Len(currentExercises') :
       /\ currentExercises'[i].name = plan.exercises[i].name
       /\ currentExercises'[i].sets = plan.exercises[i].sets
       /\ currentExercises'[i].reps = plan.exercises[i].reps
       /\ currentExercises'[i].weight = plan.exercises[i].weightSuggestion
       /\ currentExercises'[i].completed = FALSE
  /\ currentGoal' = ""
  /\ goalAchieved' = FALSE
  /\ elapsedSeconds' = 0
  /\ isTimerRunning'

\* C4: on every entry into Logging, a manual start yields an empty name, an empty
\* goal, goalAchieved false, an empty exercise list, no strategy text,
\* elapsedSeconds 0 and a running timer, whatever the state before; a start from a
\* generated plan yields the plan's workoutName as name, the plan's strategy as
\* strategy text and one exercise per plan exercise in plan order, with weight =
\* weightSuggestion and completed = false (a plan that is JSON null has no fields
\* and starts as a manual start does).
C4_EntryIntoLogging ==
  [][/\ ManualStartStep => StartsEmpty
     /\ AIStartStep =>
          \E resp \in PlanResponses :
             IF PlanOf(resp) = JSNull THEN StartsEmpty ELSE StartsFromPlan(PlanOf(resp))]_vars

\* Logging freshly started from the generated plan
C4_Witness ==
  /\ isLogging /\ isTimerRunning /\ elapsedSeconds = 0
  /\ currentSessionName = ValidPlan.workoutName
  /\ aiStrategy = ValidPlan.strategy
  /\ Len(currentExercises) = 1
  /\ currentExercises[1].weight = ValidPlan.exercises[1].weightSuggestion
  /\ ~currentExercises[1].completed

\* a step that stores a session
FinishStep == Len(workouts') = Len(workouts) + 1

\* the least number of minutes that covers the seconds
MinutesCovering(seconds) == CHOOSE d \in 0..seconds : 60 * d >= seconds /\ 60 * (d - 1) < seconds

C5_Stored == \A i \in 1..Len(workouts) : workouts[i].durationMinutes >= 1

C5_Finish ==
  FinishStep =>
    LET d == IF MinutesCovering(elapsedSeconds) >= 1 THEN MinutesCovering(elapsedSeconds) ELSE 1
        n == Len(currentExercises)
    IN /\ workouts'[1].durationMinutes = d
       /\ workouts'[1].caloriesBurned = d * 5 + n * 20
       /\ elapsedSeconds = 125 /\ n = 2 =>
            workouts'[1].durationMinutes = 3 /\ workouts'[1].caloriesBurned = 55

\* C5: for every finished session durationMinutes = max(1, ceil(elapsedSeconds/60))
\* and caloriesBurned = floor(durationMinutes*5 + exerciseCount*20), with
\* elapsedSeconds and exerciseCount as they are at the moment of finish (125 s and
\* 2 exercises give 3 minutes and 55 kcal); every stored session has
\* durationMinutes >= 1.
C5_DerivedMetrics == []C5_Stored /\ [][C5_Finish]_vars

\* the session of 125 seconds and 2 exercises, stored
C5_Witness ==
  \E i \in 1..Len(workouts) :
     /\ Len(workouts[i].exercises) = 2
     /\ workouts[i].durationMinutes = 3
     /\ workouts[i].caloriesBurned = 55

\* the updates by id to try on a store: each stored session with goalAchieved
\* negated, and a session whose id no stored session has
UpdateCandidates(ws) ==
  {[ws[i] EXCEPT !.goalAchieved = ~ws[i].goalAchieved] : i \in 1..Len(ws)}
    \cup {[ws[i] EXCEPT !.id = "0"] : i \in 1..Len(ws)}

Ids(ws) == [i \in 1..Len(ws) |-> ws[i].id]

C6_Replaces ==
  \A u \in UpdateCandidates(workouts) :
     LET r == handleUpdateWorkout(workouts, u)
         changed == {i \in 1..Len(workouts) : r[i] # workouts[i]}
     IN /\ Len(r) = Len(workouts)
        /\ Ids(r) = Ids(workouts)
        /\ IF \E i \in 1..Len(workouts) : workouts[i].id = u.id
             THEN /\ Cardinality(changed) = 1
                  /\ \A i \in changed : workouts[i].id = u.id /\ r[i] = u
             ELSE r = workouts

\* a step that changes the workout store and keeps its length is an update
C6_UpdateStep ==
  workouts' # workouts /\ Len(workouts') = Len(workouts) =>
    /\ Ids(workouts') = Ids(workouts)
    /\ Cardinality({i \in 1..Len(workouts) : workouts'[i] # workouts[i]}) = 1

\* C6: handleUpdateWorkout(u) replaces the stored session whose id equals u.id
\* with u, exactly once, and leaves every other session, the length of the
\* collection and the order of all entries unchanged; when no stored session has
\* the id u.id the collection is unchanged.  So updating the session just added
\* changes the collection at that entry only.
C6_UpdateById == []C6_Replaces /\ [][C6_UpdateStep]_vars

\* a session in the middle of the store whose goalAchieved was toggled after it
\* was stored
C6_Witness ==
  \E i \in 2..(Len(workouts) - 1) : workouts[i].goalAchieved

\* most recently added first
MostRecentFirst(s, time(_)) == \A i, j \in 1..Len(s) : i < j => time(s[i]) > time(s[j])

WorkoutDate(w) == w.date

MealTimestamp(m) == m.timestamp

\* the first entries are the k most recent ones: every session left out is older
\* than every session taken
MostRecentOf(taken, ws, k) ==
  /\ Len(taken) = IF Len(ws) < k THEN Len(ws) ELSE k
  /\ \A i \in 1..Len(taken) : \E j \in 1..Len(ws) : ws[j] = taken[i]
  /\ \A j \in 1..Len(ws) :
       (\A i \in 1..Len(taken) : taken[i].id # ws[j].id) =>
          \A i \in 1..Len(taken) : taken[i].date > ws[j].date

C7_Ordered ==
  /\ MostRecentFirst(workouts, WorkoutDate)
  /\ MostRecentFirst(meals, MealTimestamp)
  /\ MostRecentOf(historySummary(workouts), workouts, 3)
  /\ MostRecentOf(recentWorkouts(workouts), workouts, 5)

\* a step that adds an entry puts it at index 0 and keeps the others in order
C7_AddStep ==
  /\ Len(workouts') = Len(workouts) + 1 =>
       /\ workouts'[1].date = now
       /\ \A i \in 1..Len(workouts) : workouts'[i + 1] = workouts[i]
  /\ Len(meals') = Len(meals) + 1 =>
       /\ meals'[1].timestamp = now
       /\ \A i \in 1..Len(meals) : meals'[i + 1] = meals[i]

\* C7: handleAddWorkout and handleAddMeal place the new entry at index 0 and keep
\* all previous entries in their previous order, so each collection is ordered
\* most-recently-added first in every reachable state; the sessions summarised
\* for plan generation (first 3) and for the coaching context (first 5) are the
\* most recently finished ones.
C7_MostRecentFirst == []C7_Ordered /\ [][C7_AddStep]_vars

\* more sessions than either summary takes, and more than one meal
C7_Witness == Len(workouts) >= 6 /\ Len(meals) >= 2

\* every entry of the collection is still there after the step, at the same
\* distance from the end
StaysStored(old, new) ==
  /\ Len(new) >= Len(old)
  /\ \A i \in 1..Len(old) : new[Len(new) - Len(old) + i].id = old[i].id

\* C8: across finish, toggle of goalAchieved, meal logging, cancel, view switches,
\* edit profile followed by a new onboarding, and every outcome of an AI call, the
\* workout and meal collections never lose an entry: their lengths never decrease
\* and an entry once stored stays stored.
C8_NeverLoses == [][StaysStored(workouts, workouts') /\ StaysStored(meals, meals')]_vars

\* both collections hold entries while the profile is being entered again
C8_Witness == userProfile = Null /\ Len(workouts) >= 2 /\ Len(meals) >= 2 /\ step = 3

\* C9: getFitnessCoaching, generateDashboardInsight and generateWorkoutPlan never
\* surface an error to their caller: for every outcome of the external generation
\* call (rejection, empty text, text that is not valid JSON) each of them returns
\* a value and does not throw.
C9_NeverThrows ==
  serviceCall.op \in {"getFitnessCoaching", "generateDashboardInsight", "generateWorkoutPlan"}
    => serviceCall.result.kind = "return" /\ "value" \in DOMAIN serviceCall.result

\* a coaching request whose message was sent and rejected, answered with a value
C9_Witness ==
  /\ serviceCall.op = "getFitnessCoaching"
  /\ Len(serviceCall.history) >= 1
  /\ serviceCall.history[Len(serviceCall.history)].role = "user"
  /\ serviceCall.response = Rejected
  /\ serviceCall.result.kind = "return"

\* the generation call failed: it was rejected, its text is empty, or its text
\* is not JSON
PlanGenerationFailed(resp) ==
  \/ resp.kind = "rejected"
  \/ resp.kind = "resolved" /\ resp.text \in {Undefined, ""}
  \/ resp.kind = "resolved" /\ resp.text \notin {Undefined, ""} /\ JSONParse(resp.text).kind = "throw"

\* C10: for every failure of plan generation, whatever its cause (transport
\* failure, empty response text or JSON parse failure, all treated alike),
\* generateWorkoutPlan returns exactly the static fallback plan: workoutName
\* 'Quick HIIT Blast' with the exercises Jumping Jacks 3x30, Pushups 3x10 and
\* Squats 3x15, each with weightSuggestion 0, never an empty or partial plan.
C10_FallbackPlan ==
  serviceCall.op = "generateWorkoutPlan" /\ PlanGenerationFailed(serviceCall.response) =>
    /\ serviceCall.result.kind = "return"
    /\ DOMAIN serviceCall.result.value = {"workoutName", "strategy", "exercises"}
    /\ serviceCall.result.value.workoutName = "Quick HIIT Blast"
    /\ serviceCall.result.value.exercises =
         << [name |-> "Jumping Jacks", sets |-> 3, reps |-> 30, weightSuggestion |-> 0],
            [name |-> "Pushups", sets |-> 3, reps |-> 10, weightSuggestion |-> 0],
            [name |-> "Squats", sets |-> 3, reps |-> 15, weightSuggestion |-> 0] >>

\* a plan generation whose response text is not JSON, answered with a plan
C10_Witness ==
  /\ serviceCall.op = "generateWorkoutPlan"
  /\ serviceCall.response = Resolved(TextNotJSON)
  /\ serviceCall.result.kind = "return"

\* a plan with a name, a strategy and an exercise list
CompletePlan(plan) ==
  plan # JSNull /\ {"workoutName", "strategy", "exercises"} \subseteq DOMAIN plan

\* a step within the workout view that ends a plan generation
GenerationCompletes == isGenerating /\ ~isGenerating' /\ currentView' = currentView

\* C11: after handleGenerateWorkout completes, for every response of the
\* generation service (a response that parses as JSON but lacks required fields
\* included), the flow is either still Idle with no logging state changed, or in
\* Logging with name, strategy text and exercise list all populated from one
\* complete plan; it is never in Logging with only part of a plan applied.
C11_AllOrNothing ==
  [][GenerationCompletes =>
       \/ /\ ~isLogging /\ ~isLogging'
          /\ UNCHANGED <<currentSessionName, currentGoal, goalAchieved, currentExercises,
                         aiStrategy, elapsedSeconds, isTimerRunning>>
       \/ /\ isLogging'
          /\ \E resp \in PlanResponses :
               CompletePlan(PlanOf(resp)) /\ StartsFromPlan(PlanOf(resp))]_vars

\* Logging with the name and strategy of a plan and none of its exercises
C11_Witness ==
  /\ isLogging
  /\ currentSessionName = "Full Body Foundation"
  /\ aiStrategy = "Build a base."
  /\ currentExercises = <<>>

\* the analysis call failed: it was rejected, its text is empty, or its text is
\* not JSON
FoodAnalysisFailed(resp) ==
  \/ resp.kind = "rejected"
  \/ resp.kind = "resolved" /\ resp.text \in {Undefined, ""}
  \/ resp.kind = "resolved" /\ resp.text \notin {Undefined, ""} /\ JSONParse(resp.text).kind = "throw"

\* C12: for every failure of food-image analysis, whatever its cause (transport
\* failure, empty response text or JSON parse failure, all treated alike),
\* analyzeFoodImage fails by throwing to its caller; it never returns a default or
\* fabricated macro estimate.
C12_AnalysisThrows ==
  serviceCall.op = "analyzeFoodImage" /\ FoodAnalysisFailed(serviceCall.response) =>
    /\ serviceCall.result.kind = "throw"
    /\ "value" \notin DOMAIN serviceCall.result

\* an analysis whose response text is not JSON, ended by a throw
C12_Witness ==
  /\ serviceCall.op = "analyzeFoodImage"
  /\ serviceCall.response = Resolved(TextNotJSON)
  /\ serviceCall.result.kind = "throw"

\* a step within the nutrition view that ends an analysis
AnalysisResolves ==
  /\ currentView' = currentView
  /\ analyzing' # analyzing /\ analyzing' \subseteq analyzing

\* a step that changes the meal collection stores the held result
C13_SaveStep ==
  meals' # meals =>
    /\ preview # NullStr /\ analysisResult # Null
    /\ Len(meals') = Len(meals) + 1
    /\ meals'[1].name = analysisResult.name
    /\ meals'[1].macros = analysisResult.macros
    /\ meals'[1].imageUrl = preview
    /\ \A i \in 1..Len(meals) : meals'[i + 1] = meals[i]

\* a step that ends an analysis stores nothing and lets no error out; it leaves
\* a result only if the analysis succeeded
C13_AnalysisStep ==
  AnalysisResolves =>
    /\ meals' = meals
    /\ unhandled' = unhandled
    /\ analysisResult' # analysisResult =>
         \E resp \in FoodResponses :
            analyzeFoodImage(resp).kind = "return" /\ analysisResult' = analyzeFoodImage(resp).value

\* C13: the meal collection changes only through handleSaveMeal executed while a
\* result of a successful analysis is held (analysisResult and preview both
\* non-null), and the stored MealLog carries that result's name and macros; a
\* failed analysis leaves the meal collection untouched, produces no MealLog, and
\* its error does not escape handleFileSelect.
C13_MealsOnlyBySave == [](unhandled = {}) /\ [][C13_SaveStep /\ C13_AnalysisStep]_vars

\* a meal is stored, and a later analysis has failed and been handled
C13_Witness ==
  /\ Len(meals) >= 1
  /\ Mounted("nutrition")
  /\ preview # NullStr /\ analysisResult = Null
  /\ ~isAnalyzing /\ analyzing = {} /\ reading = {}

\* a step that ends an analysis and leaves no result: the analysis failed
AnalysisFails == AnalysisResolves /\ analysisResult' = Null

\* C14: after a failed food-image analysis the nutrition flow is in a usable
\* pre-analysis state: in the state reached when the failure has been handled the
\* user can select an image again, by the file input or after Retake, without
\* leaving the nutrition view.
C14_RetryPossible == [][AnalysisFails => FileInputRendered' \/ ResultRendered']_vars

\* the failure is handled, nothing is pending, and the nutrition view offers
\* neither the file input nor Retake nor Log Meal
C14_Witness ==
  /\ Mounted("nutrition")
  /\ preview # NullStr /\ analysisResult = Null
  /\ ~isAnalyzing /\ analyzing = {} /\ reading = {}
  /\ ~FileInputRendered /\ ~ResultRendered
  /\ ~ENABLED (\E file \in Images : handleFileSelect(file))
  /\ ~ENABLED Retake
  /\ ~ENABLED handleSaveMeal(MaxLogged + 1)

\* the numeric fields requested of a food analysis and of a plan exercise
MacroFields == {"calories", "protein", "carbs", "fat"}

ExerciseNumberFields == {"sets", "reps", "weightSuggestion"}

\* the response parses as JSON, to an object that lacks a requested numeric field
FoodLacksField(resp) ==
  /\ resp.kind = "resolved" /\ resp.text \notin {Undefined, ""}
  /\ JSONParse(resp.text).kind = "return"
  /\ JSONParse(resp.text).value # JSNull
  /\ ~(MacroFields \subseteq DOMAIN JSONParse(resp.text).value)

PlanLacksField(resp) ==
  /\ resp.kind = "resolved" /\ resp.text \notin {Undefined, ""}
  /\ JSONParse(resp.text).kind = "return"
  /\ Has(JSONParse(resp.text).value, "exercises")
  /\ \E i \in 1..Len(JSONParse(resp.text).value.exercises) :
        ~(ExerciseNumberFields \subseteq DOMAIN JSONParse(resp.text).value.exercises[i])

\* C15: a structured response is treated as successful only when every requested
\* numeric field is present: if the parsed food-analysis response lacks calories,
\* protein, carbs or fat, analyzeFoodImage fails instead of returning a result,
\* so no MealLog with an absent macro value is ever stored; likewise a parsed
\* plan whose exercises lack sets, reps or weightSuggestion is treated as a
\* plan-generation failure, which yields the fallback plan.
C15_FieldsValidated ==
  /\ serviceCall.op = "analyzeFoodImage" /\ FoodLacksField(serviceCall.response)
       => serviceCall.result.kind = "throw"
  /\ serviceCall.op = "generateWorkoutPlan" /\ PlanLacksField(serviceCall.response)
       => serviceCall.result = Return(FallbackPlan)
  /\ \A i \in 1..Len(meals) : \A f \in MacroFields : meals[i].macros[f] # <<>>

\* a stored MealLog without a calorie value
C15_Witness == \E i \in 1..Len(meals) : meals[i].macros.calories = <<>>


\* C16: getFitnessCoaching sends a message to the generation service only when
\* the most recent entry of the given history has role 'user'; for every other
\* history (last entry has role 'model', or the history is empty) it sends
\* nothing and returns the empty string.
LastIsUser(history) == Len(history) > 0 /\ history[Len(history)].role = "user"

C16_SendsOnlyForUser ==
  serviceCall.op = "getFitnessCoaching" =>
    /\ serviceCall.sent # << >> => LastIsUser(serviceCall.history)
    /\ ~LastIsUser(serviceCall.history)
         => serviceCall.sent = << >> /\ serviceCall.result = Return("")

\* the part of the statement the code keeps: nothing is sent unless the last entry
\* is the user's, and a history ending in a 'model' entry is answered with ""
C16_ModelLastSilent ==
  serviceCall.op = "getFitnessCoaching" =>
    /\ serviceCall.sent # << >> => LastIsUser(serviceCall.history)
    /\ Len(serviceCall.history) > 0 /\ ~LastIsUser(serviceCall.history)
         => serviceCall.sent = << >> /\ serviceCall.result = Return("")

\* a call with the empty history, answered with the text of the catch block
C16_Witness ==
  /\ serviceCall.op = "getFitnessCoaching"
  /\ serviceCall.history = << >>
  /\ serviceCall.sent = << >>
  /\ serviceCall.result = CoachingCatch("TypeError")
  /\ serviceCall.result # Return("")


\* C17: calculateStreak over any set of workout dates returns 0 when there are no
\* workouts, 0 when the most recent distinct workout date is neither today nor
\* yesterday, and otherwise the length of the maximal run of consecutive calendar
\* days ending at the most recent workout date (several workouts on one day count
\* once; counting stops at the first gap). {today, yesterday, day-before} gives 3,
\* {today, 3-days-ago} gives 1, {3-days-ago} gives 0.
WorkoutDays(ws) == {DayOf(ws[i].date) : i \in 1..Len(ws)}

MostRecentDay(days) == CHOOSE d \in days : \A e \in days : e <= d

\* the length of the maximal run of consecutive days ending at the most recent one
RunEndingAt(days, latest) ==
  CHOOSE n \in 1..Cardinality(days) :
    /\ \A k \in 0..(n - 1) : latest - k \in days
    /\ latest - n \notin days

CurrentStreak(ws, clock) ==
  LET days == WorkoutDays(ws) IN
  IF days = {} THEN 0
  ELSE IF MostRecentDay(days) \notin {DayOf(clock), DayOf(clock) - 1} THEN 0
  ELSE RunEndingAt(days, MostRecentDay(days))

C17_Streak ==
  \A zone \in Zones : calculateStreak(workouts, now, zone) = CurrentStreak(workouts, now)

\* on a host whose offset from UTC never changes the streak is the current run
C17_StreakFixedOffset ==
  \A zone \in Zones : zone.before = zone.after =>
    calculateStreak(workouts, now, zone) = CurrentStreak(workouts, now)

\* sessions on today, yesterday and the day before, seen in the profile view on a
\* host whose daylight saving time ended yesterday: the streak shown is 1, not 3
C17_Witness ==
  /\ Mounted("profile")
  /\ DayOf(now) >= 2
  /\ WorkoutDays(workouts) = {DayOf(now), DayOf(now) - 1, DayOf(now) - 2}
  /\ CurrentStreak(workouts, now) = 3
  /\ calculateStreak(workouts, now, FixedZone(0)) = 3
  /\ \E zone \in Zones : calculateStreak(workouts, now, zone) = 1


\* C18: in every reachable state the 'Club 10' badge is unlocked if and only if
\* the workout store holds at least 10 sessions (9 sessions: locked, 10:
\* unlocked), independent of the order of the sessions.
C18_Club10 ==
  Mounted("profile") => (isUnlocked("club_10") <=> Len(workouts) >= 10)

\* the profile view over a store of exactly 10 sessions, the badge unlocked
C18_Witness ==
  Mounted("profile") /\ Len(workouts) = 10 /\ isUnlocked("club_10")

\* the profile view over a store of exactly 9 sessions, the badge locked
C18_WitnessLocked ==
  Mounted("profile") /\ Len(workouts) = 9 /\ ~isUnlocked("club_10")


\* C19: the 'Heavy Lifter' badge is unlocked if and only if at least one stored
\* session has total volume, the sum over its exercises of weight*reps*sets, of
\* at least 5000 (volume exactly 5000 unlocks; volumes of different sessions are
\* never added together).
VolumeOf(session) ==
  LET e == session.exercises
      upTo[k \in 0..Len(e)] ==
        IF k = 0 THEN 0 ELSE upTo[k - 1] + e[k].weight * e[k].reps * e[k].sets
  IN upTo[Len(e)]

C19_HeavyLifter ==
  Mounted("profile") =>
    (isUnlocked("volume_master") <=> \E i \in 1..Len(workouts) : VolumeOf(workouts[i]) >= 5000)

\* the badge unlocked by a session of volume exactly 5000, no session above it
C19_Witness ==
  /\ Mounted("profile")
  /\ isUnlocked("volume_master")
  /\ \E i \in 1..Len(workouts) : VolumeOf(workouts[i]) = 5000
  /\ \A i \in 1..Len(workouts) : VolumeOf(workouts[i]) <= 5000

\* the badge locked over two sessions of volume 2500 each
C19_WitnessLocked ==
  /\ Mounted("profile")
  /\ ~isUnlocked("volume_master")
  /\ Len(workouts) = 2
  /\ \A i \in 1..Len(workouts) : VolumeOf(workouts[i]) = 2500


\* C20: for every profile, the daily calorie target equals
\* round((10*weight + 6.25*height - 5*age + s) * f + g), where s = 5 if gender is
\* Male and -161 otherwise (Female and Other), f is 1.2 / 1.375 / 1.55 / 1.725
\* for Sedentary / Lightly Active / Moderately Active / Very Active, and g = -500
\* for goal 'Lose Weight', +300 for 'Build Muscle' and 0 for every other goal;
\* the step goal is always 10000.
\* (10*weight + 6.25*height - 5*age + s) * f + g in units of 1/4000
TargetOf(u) ==
  LET s == IF u.gender = "Male" THEN 5 ELSE 0 - 161
      f == CASE u.activityLevel = "Sedentary" -> 1200
             [] u.activityLevel = "Lightly Active" -> 1375
             [] u.activityLevel = "Moderately Active" -> 1550
             [] u.activityLevel = "Very Active" -> 1725
      g == CASE u.goal = "Lose Weight" -> 0 - 500
             [] u.goal = "Build Muscle" -> 300
             [] OTHER -> 0
  IN (40 * u.weight + 25 * u.height - 20 * u.age + 4 * s) * f + 4000 * g

\* r is an integer nearest to n / 4000; halfway between two integers either one is
\* nearest, which is where the floating-point product can fall to either side
RoundOf(r, n) == 4000 * r - n <= 2000 /\ n - 4000 * r <= 2000

C20_Targets ==
  Mounted("dashboard") =>
    /\ RoundOf(calculateTargets(userProfile).calorieGoal, TargetOf(userProfile))
    /\ calculateTargets(userProfile).stepGoal = 10000

\* the dashboard of a profile of gender 'Other', lightly active, losing weight:
\* (700 + 1093.75 - 150 - 161) * 1.375 - 500 = 1538.78..., target 1539
C20_Witness ==
  /\ Mounted("dashboard")
  /\ userProfile.gender = "Other"
  /\ userProfile.activityLevel = "Lightly Active"
  /\ userProfile.goal = "Lose Weight"
  /\ userProfile.weight = 70 /\ userProfile.height = 175 /\ userProfile.age = 30
  /\ calculateTargets(userProfile).calorieGoal = 1539

\* the dashboard of a profile whose goal is neither of the two adjusted ones:
\* (700 + 1093.75 - 150 + 5) * 1.725 = 2844.09..., target 2844
C20_WitnessOtherGoal ==
  /\ Mounted("dashboard")
  /\ userProfile.gender = "Male"
  /\ userProfile.activityLevel = "Very Active"
  /\ userProfile.goal = "Keep Fit"
  /\ userProfile.weight = 70 /\ userProfile.height = 175 /\ userProfile.age = 30
  /\ calculateTargets(userProfile).calorieGoal = 2844


\* C21: BMI category boundaries are closed-open: a BMI of 18.5 is Healthy (not
\* Underweight), 25.0 is Overweight (not Healthy), 30.0 is Obese; every BMI below
\* 18.5 is Underweight, and every BMI falls in exactly one category, where the
\* BMI classified is weight/(height in metres)^2 expressed to one decimal place.
\* t is a tenth nearest to weight / (height / 100)^2
TenthOf(t, user) ==
  LET n == user.weight * 100000
      d == user.height * user.height
  IN 2 * (t * d - n) <= d /\ 2 * (n - t * d) <= d

CategoriesOf(t) ==
  {c \in {"Underweight", "Healthy", "Overweight", "Obese"} :
     \/ c = "Underweight" /\ t < 185
     \/ c = "Healthy" /\ 185 <= t /\ t < 250
     \/ c = "Overweight" /\ 250 <= t /\ t < 300
     \/ c = "Obese" /\ 300 <= t}

C21_BMICategory ==
  Mounted("profile") =>
    /\ TenthOf(bmiValue(userProfile), userProfile)
    /\ CategoriesOf(bmiValue(userProfile)) = {bmiCategory(userProfile)}

\* the profile view of 200 cm and 74 kg: the BMI is 18.5 and the category Healthy
C21_Witness ==
  /\ Mounted("profile")
  /\ userProfile.height = 200 /\ userProfile.weight = 74
  /\ bmiValue(userProfile) = 185
  /\ bmiCategory(userProfile) = "Healthy"

\* every category and the other two boundaries are seen
C21_WitnessOverweight ==
  Mounted("profile") /\ bmiValue(userProfile) = 250 /\ bmiCategory(userProfile) = "Overweight"

C21_WitnessObese ==
  Mounted("profile") /\ bmiValue(userProfile) = 300 /\ bmiCategory(userProfile) = "Obese"

C21_WitnessUnderweight ==
  Mounted("profile") /\ bmiValue(userProfile) < 185 /\ bmiCategory(userProfile) = "Underweight"


\* C22: in every reachable state in which a profile exists, the profile has
\* age > 0, weight > 0 and height > 0 (and a non-empty name): onboarding never
\* completes with a zero, negative or missing value for any of these fields.
C22_PositiveProfile ==
  userProfile # Null =>
    /\ userProfile.age > 0
    /\ userProfile.weight > 0
    /\ userProfile.height > 0
    /\ userProfile.name \notin {"", Undefined}

\* what the truthiness tests of Onboarding do keep out: a missing or zero number
\* and an empty name
C22_NonZeroProfile ==
  userProfile # Null =>
    /\ userProfile.age # 0
    /\ userProfile.weight # 0
    /\ userProfile.height # 0
    /\ userProfile.name \notin {"", Undefined}

\* a profile of negative age, weight and height, shown on the dashboard
C22_Witness ==
  /\ Mounted("dashboard")
  /\ userProfile.age < 0
  /\ userProfile.weight < 0
  /\ userProfile.height < 0


\* C23: once a session is in the workout store, its id, date, name, exercises
\* (including each exercise's completed flag), durationMinutes, caloriesBurned and
\* goal never change; the only field that can change is goalAchieved, and only
\* through toggleGoalAchieved, which negates it for the session with that id and
\* leaves all other sessions unchanged (toggling twice restores the original store).
\* every stored session is still stored, the same but for goalAchieved
C23_FieldsKept ==
  \A i \in 1..Len(workouts) : \E j \in 1..Len(workouts') :
     /\ workouts'[j].id = workouts[i].id
     /\ [workouts'[j] EXCEPT !.goalAchieved = workouts[i].goalAchieved] = workouts[i]

\* the store after the Done / Mark Done button of its i-th session
Toggled(ws, i) == handleUpdateWorkout(ws, [ws[i] EXCEPT !.goalAchieved = ~ws[i].goalAchieved])

\* a step that changes goalAchieved of a stored session is toggleGoalAchieved of
\* that session in the idle workout view
C23_ToggleOnly ==
  (\E i \in 1..Len(workouts) : \E j \in 1..Len(workouts') :
      workouts'[j].id = workouts[i].id /\ workouts'[j].goalAchieved # workouts[i].goalAchieved)
    => /\ Mounted("workout") /\ ~isLogging
       /\ \E i \in 1..Len(workouts) : workouts' = Toggled(workouts, i)
       /\ Cardinality({i \in 1..Len(workouts) : workouts'[i] # workouts[i]}) = 1
       /\ UNCHANGED <<currentView, meals, userProfile, workoutVars>>

C23_TwiceRestores ==
  \A i \in 1..Len(workouts) :
     /\ Toggled(Toggled(workouts, i), i) = workouts
     /\ \A k \in 1..Len(workouts) : k # i => Toggled(workouts, i)[k] = workouts[k]

C23_StoredSessionFrame == []C23_TwiceRestores /\ [][C23_FieldsKept /\ C23_ToggleOnly]_vars

\* the oldest of three stored sessions carries a goal marked achieved after it was
\* stored, the two sessions above it carry none
C23_Witness ==
  /\ Len(workouts) = 3
  /\ workouts[3].goalAchieved /\ ~Falsy(workouts[3].goal)
  /\ Falsy(workouts[1].goal) /\ Falsy(workouts[2].goal)
  /\ Mounted("workout")


\* C24: coaching requests may overlap (a second send before the first resolves),
\* and each resolution is appended unconditionally: for every user message
\* appended to the chat, exactly one model message is appended when its request
\* resolves (the reply, or the fallback string on failure), whatever the number of
\* requests in flight and the order in which they resolve; the chat history is
\* append-only, no message is ever removed, replaced or reordered.
\* every message sent or received stays where it is in the chat, under the
\* greeting, and the chat grows by one message at its end at most
AppendOnly ==
  /\ \A i \in 2..Len(messages) : Len(messages') >= i /\ messages'[i] = messages[i]
  /\ Len(messages) >= 1 => Len(messages') <= Len(messages) + 1

\* a request leaves the requests in flight by the step that appends its reply
ReplyStep ==
  coaching \ coaching' # {} =>
    /\ Cardinality(coaching \ coaching') = 1
    /\ coaching' \subseteq coaching
    /\ Len(messages') = Len(messages) + 1
    /\ messages'[Len(messages')].role = "model"

\* a user message enters the chat by the step that puts its request in flight
SendStep ==
  (Len(messages') > Len(messages) /\ messages'[Len(messages')].role = "user") =>
    coaching' = coaching \cup {messages'}

\* messages of a role in a chat
OfRole(ms, role) == {i \in 1..Len(ms) : ms[i].role = role}

\* the replies and the requests in flight together are the user messages; the
\* chat holds the greeting besides
RepliesMatch ==
  Mounted("coach") =>
    Cardinality(OfRole(messages, "user")) =
      (Cardinality(OfRole(messages, "model")) - 1) + Cardinality(coaching)

C24_AppendOnlyReplies == []RepliesMatch /\ [][AppendOnly /\ ReplyStep /\ SendStep]_vars

\* the same while the coach view stays on the screen
C24_WhileShown ==
  []RepliesMatch
    /\ [][Mounted("coach") /\ currentView' = currentView
            => AppendOnly /\ ReplyStep /\ SendStep]_vars

\* the coach view shown again after a message was sent: the chat holds the
\* greeting alone and no request is in flight
C24_Witness ==
  /\ Mounted("coach")
  /\ now = 2
  /\ messages = << Greeting(userProfile) >>
  /\ coaching = {}

\* two requests in flight at once, the reply to the second one appended first
C24_WitnessOverlap ==
  /\ Mounted("coach")
  /\ Len(messages) = 4
  /\ messages[2].role = "user" /\ messages[3].role = "user" /\ messages[4].role = "model"
  /\ coaching = {SubSeq(messages, 1, 2)}


\* C26: in the coach view, isLoading is true in every state in which at least one
\* coaching request is still unresolved; it becomes false only when no request is
\* in flight.
C26_LoadingWhileInFlight ==
  /\ Mounted("coach") /\ coaching # {} => isLoading
  /\ Mounted("coach") /\ ~isLoading => coaching = {}

\* a request still in flight in the coach view, the flag cleared by the reply to
\* another one
C26_Witness ==
  /\ Mounted("coach")
  /\ Cardinality(coaching) = 1
  /\ ~isLoading
  /\ Len(messages) = 4
  /\ messages[4].role = "model"

\* with one request at a time the flag is true exactly while it is in flight
C26_SingleRequest ==
  Mounted("coach") /\ Cardinality(OfRole(messages, "user")) <= 1
    => (isLoading <=> coaching # {})


\* C25: the start(AI-generated) transition is taken only from Idle: when a
\* plan-generation request resolves while a logging session is already in
\* progress (for instance one started manually while the request was pending),
\* the resolution does not reset or overwrite that session's name, goal, exercise
\* list or elapsed time.
\* the plan-generation request of the workout view resolves during Logging
ResolvesDuringLogging == GenerationCompletes /\ isLogging

C25_AIStartOnlyFromIdle ==
  [][ResolvesDuringLogging =>
       UNCHANGED <<isLogging, currentSessionName, currentGoal, currentExercises,
                   elapsedSeconds>>]_vars

\* a session started manually while the request was pending, named, with an
\* exercise and a second on the clock, the request still unresolved
C25_Witness ==
  /\ Mounted("workout")
  /\ isLogging /\ isGenerating
  /\ currentSessionName = "Leg Day"
  /\ Len(currentExercises) = 1
  /\ elapsedSeconds = 1
  /\ ENABLED (PlanResolved(Resolved(TextValidPlan))
                /\ currentSessionName' = "Full Body Foundation" /\ elapsedSeconds' = 0)


\* C27: every stored MealLog pairs an image with the macros computed from that
\* same image: for any interleaving of file selections, file-read completions and
\* analysis resolutions, the analysisResult offered for saving was produced by
\* analysing the image currently held in preview.
\* what analysing the image gives
AnalysisOf(file) == analyzeFoodImage(ResponseFor(file)).value

C27_ResultOfPreview ==
  /\ ~Falsy(preview) /\ analysisResult # Null => analysisResult = AnalysisOf(preview)
  /\ \A i \in 1..Len(meals) :
       /\ meals[i].name = AnalysisOf(meals[i].imageUrl).name
       /\ meals[i].macros = AnalysisOf(meals[i].imageUrl).macros

\* a stored meal whose image is the second photograph and whose macros are those
\* of the first
C27_Witness ==
  \E i \in 1..Len(meals) :
     /\ meals[i].imageUrl = "data:image/png;base64,BBBB"
     /\ meals[i].name = "Chicken Salad"
     /\ meals[i].macros.calories = <<420>>


\* C28: the in-progress logging session exists only while the workout view is
\* shown: switching to another view during Logging discards the session without
\* changing the workout store, the workout view is Idle when it is shown again,
\* and a plan-generation request that resolves after the view was left does not
\* put the flow into Logging.
\* no session, no request and no timer in a workout view that is not shown
C28_NoSessionOffScreen ==
  ~Mounted("workout") =>
    /\ ~isLogging /\ ~isGenerating /\ ~isTimerRunning
    /\ currentSessionName = "" /\ currentGoal = "" /\ currentExercises = << >>
    /\ elapsedSeconds = 0 /\ aiStrategy = NullStr

\* a switch away from the workout view that is not the one of a finish
LeavesWorkout == Mounted("workout") /\ currentView' # "workout" /\ ~FinishStep

\* the workout view is entered
EntersWorkout == currentView # "workout" /\ currentView' = "workout"

C28_ViewSteps ==
  /\ LeavesWorkout => workouts' = workouts
  /\ EntersWorkout => ~isLogging' /\ ~isGenerating'
  /\ ~isLogging /\ isLogging' => Mounted("workout") /\ currentView' = "workout"

C28_SessionOnlyWhileShown == []C28_NoSessionOffScreen /\ [][C28_ViewSteps]_vars

\* a named session with an exercise and a second on the clock, a plan-generation
\* request pending: the switch to the nutrition view discards the session and
\* the request and leaves the store as it is
C28_Witness ==
  /\ Mounted("workout")
  /\ isLogging /\ isGenerating
  /\ currentSessionName = "Leg Day" /\ Len(currentExercises) = 1 /\ elapsedSeconds = 1
  /\ ENABLED (NavItem("nutrition") /\ ~isLogging' /\ ~isGenerating'
                /\ currentExercises' = << >> /\ workouts' = workouts)

\* C29: in every reachable state in which a profile exists, its weightHistory has
\* exactly one entry and that entry's weight equals the profile's current weight
\* (each onboarding, including the one after 'edit profile', rebuilds the history
\* from the entered weight and nothing else modifies the profile); therefore the
\* 'New You' badge predicate (first weightHistory weight minus current weight
\* >= 10) is false in every reachable state.
C29_SingleWeightEntry ==
  userProfile # Null =>
    /\ Len(userProfile.weightHistory) = 1
    /\ userProfile.weightHistory[1].weight = userProfile.weight
    /\ ~transformation_10(userProfile, workouts)

\* nothing but the completion of an onboarding changes the profile
C29_ProfileStep ==
  userProfile' # userProfile =>
    \/ userProfile # Null /\ userProfile' = Null /\ Mounted("profile")
    \/ userProfile = Null /\ step = 3 /\ userProfile' = SubmittedProfile(formData, now)

C29_NewYouNeverUnlocks == []C29_SingleWeightEntry /\ [][C29_ProfileStep]_vars

\* the profile view of a profile entered with 50 kg: one entry of 50 kg, the
\* badge locked
C29_Witness ==
  /\ Mounted("profile")
  /\ userProfile.weight = 50
  /\ userProfile.weightHistory = << [date |-> DayOf(now), weight |-> 50] >>
  /\ ~transformation_10(userProfile, workouts)


\* C30: assuming every generation call eventually resolves or rejects, every
\* loading flag is eventually cleared on the success and on the failure path:
\* isAnalyzing, isGenerating, isLoading and isAiLoading each become false when the
\* call that set them settles, so no view stays busy for ever.
C30_BusyHasCall ==
  /\ isAnalyzing => analyzing # {}
  /\ isGenerating => ENABLED PlanResolved(Rejected)
  /\ isLoading => coaching # {}
  /\ Mounted("dashboard") /\ isAiLoading => fetching

\* the step in which a call settles clears the flag, whatever the outcome
C30_SettlingClears ==
  /\ AnalysisSettles => ~isAnalyzing'
  /\ PlanSettles => ~isGenerating'
  /\ CoachingSettles => ~isLoading'
  /\ InsightSettles => ~isAiLoading'

C30_BusyEnds ==
  /\ isAnalyzing ~> ~isAnalyzing
  /\ isGenerating ~> ~isGenerating
  /\ isLoading ~> ~isLoading
  /\ (Mounted("dashboard") /\ isAiLoading) ~> ~(Mounted("dashboard") /\ isAiLoading)

C30_FlagsEventuallyCleared ==
  /\ []C30_BusyHasCall
  /\ [][C30_SettlingClears]_vars
  /\ C30_BusyEnds

\* the dashboard after its insight call was rejected: the flag is cleared
C30_Witness ==
  /\ Mounted("dashboard")
  /\ ~fetching /\ ~isAiLoading
  /\ aiInsight = generateDashboardInsight(Rejected).value

\* each of the other three flags set with its call in flight, and the rejection
\* of the call clearing it
C30_WitnessAnalyzing ==
  isAnalyzing /\ \E file \in analyzing : ENABLED (AnalysisResolved(file, Rejected) /\ ~isAnalyzing')

C30_WitnessGenerating ==
  isGenerating /\ ENABLED (PlanResolved(Rejected) /\ ~isGenerating')

C30_WitnessLoading ==
  isLoading /\ \E history \in coaching : ENABLED (CoachingResolved(history, Rejected) /\ ~isLoading')

====
